---- MODULE Spec2Model ----
(***************************************************************************)
(* A model of the BG-Counter tools: the resumable download of capture      *)
(* streams (bg_download_data.download_data) and the daily aggregation of   *)
(* captures into collections (bg_json_parser).                             *)
(*                                                                         *)
(* Timestamps are natural numbers; 0 stands for the empty timestamp        *)
(* '0000-00-00 00:00:00' (and for the None that make_datetime returns for  *)
(* it).  A capture is a time window: when both its timestamps are valid,   *)
(* its start is before its end.                                            *)
(***************************************************************************)
EXTENDS Integers, Sequences, FiniteSets, TLC

VARIABLES
    \* ---- the remote API (environment of download_data)
    stream,            \* trap id -> the captures the API holds for the trap
    mode,              \* which timestamp the API compares with data[startTime]
    \* ---- download_data
    stdscr,            \* TRUE: the curses display is on
    target_traps,      \* the target_traps argument ({} stands for None)
    pc,                \* "start", "loop", "done", "error"
    err,               \* the exception that ended the call, "none" if none
    trap_data,         \* trap id -> the captures accumulated
    incomplete_traps,  \* trap id -> most recent ending timestamp
    req_parity,        \* parity of the number of requests sent
    last_request,      \* the time frame of the last request sent
    output,            \* the trap_data handed to write_to_file, one entry per call
    \* ---- one day window: make_collection followed by write_collection
    window,            \* the day's captures as process_captures buffered them
    day_captures,      \* the list handed to make_collection, which edits it
    locations,         \* the trap's list of locations (metadata['locations'])
    obfuscate,         \* the provider's obfuscate flag
    ordinals,          \* year -> last ordinal used (metadata['ordinals'])
    collection,        \* <<>> for None, else <<the collection>>
    out_csv,           \* the rows written to the output file
    w_pc,              \* "window": not aggregated yet, "closed": aggregated
    \* ---- parse_json
    db,                \* the database: traps, obfuscate, locations, ordinals
    split_years,       \* the split_years argument
    preserve_metadata, \* the preserve_metadata argument
    metadata,          \* prefix -> the trapset loaded: traps, ordinals, obfuscate
    out_files,         \* the project files made, <<prefix, year>> each
    out_rows,          \* the rows written, in order, each with its file
    wrappers,          \* the number of trap wrappers met so far
    p_pc,              \* "run", "returned", "raised"
    p_err,             \* the error raised during the call, "none" if none
    \* ---- process_captures, capture by capture
    trap_captures,     \* the captures argument: the captures of one trap
    index,             \* the index of the next capture of the loop
    run,               \* the locals of process_captures and what it has written
    c_pc,              \* "run", "returned", "raised"
    \* ---- run_pipeline
    pl_args,           \* the arguments of run_pipeline
    pl_stored,         \* the rows of the table of providers, as get_providers reads them
    pl_todo,           \* the providers the loop has still to handle
    pl_start_time,     \* the local start_time
    pl_end_time,       \* the local end_time
    pl_files,          \* the prefixes whose file of raw data exists
    pl_calls,          \* the turns of the loop and the calls they made, in order
    pl_pc              \* "start", "loop", "returned", "raised"

fetchVars == <<stream, mode, stdscr, target_traps, pc, err, trap_data,
               incomplete_traps, req_parity, last_request, output>>

windowVars == <<window, day_captures, locations, obfuscate, ordinals, collection, out_csv, w_pc>>

parseVars == <<db, split_years, preserve_metadata, metadata, out_files, out_rows, wrappers,
               p_pc, p_err>>

captureVars == <<trap_captures, index, run, c_pc>>

pipelineVars == <<pl_args, pl_stored, pl_todo, pl_start_time, pl_end_time, pl_files,
                  pl_calls, pl_pc>>

\* The variables a subsystem leaves alone.
notFetch == <<windowVars, parseVars, captureVars, pipelineVars>>

notWindow == <<fetchVars, parseVars, captureVars, pipelineVars>>

notParse == <<fetchVars, windowVars, captureVars, pipelineVars>>

notCapture == <<fetchVars, windowVars, parseVars, pipelineVars>>

notPipeline == <<fetchVars, windowVars, parseVars, captureVars>>

vars == <<stream, mode, stdscr, target_traps, pc, err, trap_data,
          incomplete_traps, req_parity, last_request, output,
          window, day_captures, locations, obfuscate, ordinals, collection, out_csv,
          w_pc,
          db, split_years, preserve_metadata, metadata, out_files, out_rows, wrappers,
          p_pc, p_err,
          trap_captures, index, run, c_pc,
          pl_args, pl_stored, pl_todo, pl_start_time, pl_end_time, pl_files, pl_calls,
          pl_pc>>

(***************************************************************************)
(* Bounds and constants                                                    *)
(***************************************************************************)
\* The API's cap of captures per trap and response: 1000 in the source,
\* scaled down here.
limit == 2

\* The longest stream the API holds for one trap.
MaxLen == 4

\* The empty timestamp, '0000-00-00 00:00:00'.
EmptyStamp == 0

\* The start_time argument: the first instant of the requested time frame.
StartTime == 1

\* The end_time argument: every capture of a stream lies before it.
EndTime == MaxLen + 3

\* The time frame of a request that starts at from.
TimeFrame(from) == [start_time |-> from, end_time |-> EndTime]

Traps == {1, 2}

Min2(a, b) == IF a < b THEN a ELSE b

(***************************************************************************)
(* The streams the API may hold                                            *)
(***************************************************************************)
Capture(s, e) == [timestamp_start |-> s, timestamp_end |-> e]

RECURSIVE LastEnd(_)
LastEnd(s) ==
    IF s = <<>> THEN StartTime
    ELSE IF s[Len(s)].timestamp_end # EmptyStamp THEN s[Len(s)].timestamp_end
    ELSE LastEnd(SubSeq(s, 1, Len(s) - 1))

\* The captures that may follow the stream s: the next window, a repetition
\* of the last capture, a capture without ending timestamp.  (The API
\* delivers a trap's captures in chronological order.)
Follow(s, kinds) ==
    LET e == LastEnd(s)
    IN  (IF "next" \in kinds THEN {Capture(e, e + 1)} ELSE {})
        \cup (IF "dup" \in kinds /\ s # <<>> THEN {s[Len(s)]} ELSE {})
        \cup (IF "noend" \in kinds THEN {Capture(e, EmptyStamp)} ELSE {})

RECURSIVE StreamsOf(_, _)
StreamsOf(kinds, n) ==
    IF n = 0 THEN {<<>>}
    ELSE LET shorter == StreamsOf(kinds, n - 1)
         IN  shorter \cup
             UNION {{Append(s, c) : c \in Follow(s, kinds)} :
                        s \in {x \in shorter : Len(x) = n - 1}}

AllKinds == {"next", "dup", "noend"}

\* Streams of regular cadence: back-to-back windows from instant 1 or 2 on.
RegularStreams(n) ==
    {<<>>} \cup {[i \in 1..k |-> Capture(o + i - 1, o + i)] : k \in 1..n, o \in 1..2}

(***************************************************************************)
(* The remote API                                                          *)
(***************************************************************************)
Key(c) == IF mode = "start" THEN c.timestamp_start ELSE c.timestamp_end

\* The captures of trap t in the time frame that starts at from (every
\* capture of a stream lies before the end_time argument).
InTimeFrame(t, from) == SelectSeq(stream[t], LAMBDA c : Key(c) >= from)

FirstN(s, n) == SubSeq(s, 1, Min2(n, Len(s)))

\* The response to a request: the traps of `present', each with its earliest
\* captures of the time frame, at most limit of them (one more for the traps
\* of `over', for which the API breaks its cap).
request_data(from, present, over) ==
    [t \in present |->
        FirstN(InTimeFrame(t, from), IF t \in over THEN limit + 1 ELSE limit)]

(***************************************************************************)
(* download_data                                                           *)
(***************************************************************************)
make_datetime(string) == IF string = EmptyStamp THEN 0 ELSE string

\* dt.datetime.strptime raises ValueError on the empty timestamp.
strptime_raises(string) == string = EmptyStamp

Put(f, k, v) == [x \in DOMAIN f \cup {k} |-> IF x = k THEN v ELSE f[x]]

Del(f, k) == [x \in DOMAIN f \ {k} |-> f[x]]

\* The traps of a response in the order of js['traps'].
RECURSIVE TrapOrder(_)
TrapOrder(S) ==
    IF S = {} THEN <<>>
    ELSE LET m == CHOOSE x \in S : \A y \in S : x <= y
         IN  <<m>> \o TrapOrder(S \ {m})

\* Selected without the test of target_traps.
Selected_All(t) == TRUE

\* If no trap was specified or this trap was specified (line 173).
Selected(t) == target_traps = {} \/ t \in target_traps

\* One iteration of the loop over js['traps'] of the initial response.
InitialTrap(st, t, captures) ==
    IF st.err # "none" \/ ~Selected(t) THEN st
    ELSE LET d == Put(st.data, t, captures)
         IN  IF Len(captures) = limit
             THEN IF strptime_raises(captures[Len(captures)].timestamp_end)
                  THEN [st EXCEPT !.data = d, !.err = "strptime"]
                  ELSE [st EXCEPT !.data = d,
                           !.inc = Put(st.inc, t, captures[Len(captures)].timestamp_end)]
             ELSE IF Len(captures) > limit
                  THEN [st EXCEPT !.data = d, !.err = "limit"]
                  ELSE [st EXCEPT !.data = d]

\* FirstNew with `>' in the place of `>='.
FirstNew_Strict(captures, last) ==
    LET new == {i \in 1..Len(captures) :
                    /\ make_datetime(captures[i].timestamp_start) # 0
                    /\ make_datetime(captures[i].timestamp_end) # 0
                    /\ make_datetime(captures[i].timestamp_start) > last}
    IN  IF new = {} THEN 0 ELSE CHOOSE i \in new : \A j \in new : i <= j

\* FirstNew without the test of the validity of the timestamps.
FirstNew_AnyStamps(captures, last) ==
    LET new == {i \in 1..Len(captures) :
                    make_datetime(captures[i].timestamp_start) >= last}
    IN  IF new = {} THEN 0 ELSE CHOOSE i \in new : \A j \in new : i <= j

\* The index of the first capture with valid timestamps that starts at or
\* after `last', 0 if there is none.
FirstNew(captures, last) ==
    LET new == {i \in 1..Len(captures) :
                    /\ make_datetime(captures[i].timestamp_start) # 0
                    /\ make_datetime(captures[i].timestamp_end) # 0
                    /\ make_datetime(captures[i].timestamp_start) >= last}
    IN  IF new = {} THEN 0 ELSE CHOOSE i \in new : \A j \in new : i <= j

\* NewCaptures without the search for the first new capture.
NewCaptures_All(captures, last) == captures

\* The captures a continuation response adds to a trap's accumulated captures.
NewCaptures(captures, last) ==
    IF FirstNew(captures, last) = 0 THEN <<>>
    ELSE SubSeq(captures, FirstNew(captures, last), Len(captures))

\* Complete that never holds.
Complete_Never(captures) == FALSE

\* Whether the trap is through: fewer captures than the cap were delivered.
Complete(captures) == Len(captures) < limit

\* OverLimit without the check.
OverLimit_Off(captures) == FALSE

\* The check of a continuation response against the cap.
OverLimit(captures) == Len(captures) > limit

\* ContinueTrap that takes the captures of every trap it has data for.
ContinueTrap_AllSeen(st, t, captures) ==
    IF st.err # "none" \/ t \notin DOMAIN st.data THEN st
    ELSE [st EXCEPT !.data[t] = @ \o captures]

\* One iteration of the loop over new_js['traps'] of a continuation response.
ContinueTrap(st, t, captures) ==
    IF st.err # "none" \/ t \notin DOMAIN st.inc THEN st
    ELSE IF stdscr /\ captures = <<>>
    THEN [st EXCEPT !.err = "index"]
    ELSE IF stdscr /\ strptime_raises(captures[Len(captures)].timestamp_end)
    THEN [st EXCEPT !.err = "strptime"]
    ELSE IF OverLimit(captures)
    THEN [st EXCEPT !.err = "limit"]
    ELSE LET new == NewCaptures(captures, st.inc[t])
             d == IF new = <<>> THEN st.data
                  ELSE [st.data EXCEPT ![t] = @ \o new]
             ending == IF new = <<>> THEN st.inc[t]
                       ELSE make_datetime(new[Len(new)].timestamp_end)
         IN  IF ending = 0
             THEN [st EXCEPT !.data = d, !.err = "anchor"]
             ELSE [st EXCEPT !.data = d,
                      !.inc = IF Complete(captures) THEN Del(st.inc, t)
                              ELSE Put(st.inc, t, ending)]

\* The loop over js['traps'] of the initial response.
RECURSIVE InitialTraps(_, _, _)
InitialTraps(st, order, js) ==
    IF order = <<>> THEN st
    ELSE InitialTraps(InitialTrap(st, Head(order), js[Head(order)]), Tail(order), js)

\* The loop over new_js['traps'] of a continuation response.
RECURSIVE ContinueTraps(_, _, _)
ContinueTraps(st, order, js) ==
    IF order = <<>> THEN st
    ELSE ContinueTraps(ContinueTrap(st, Head(order), js[Head(order)]), Tail(order), js)

\* EarliestDate that takes the latest of them.
EarliestDate_Latest(inc) ==
    CHOOSE d \in {inc[t] : t \in DOMAIN inc} : \A t \in DOMAIN inc : d >= inc[t]

\* The earliest of the ending timestamps of the incomplete traps.
EarliestDate(inc) ==
    CHOOSE d \in {inc[t] : t \in DOMAIN inc} : \A t \in DOMAIN inc : d <= inc[t]

\* While download_data runs, no aggregation takes place.
\* process_captures is not running on its own.
CaptureIdle ==
    /\ trap_captures = <<>>
    /\ index = 0
    /\ run = <<>>
    /\ c_pc = "idle"

\* run_pipeline is not running.
PipelineIdle ==
    /\ pl_args = <<>>
    /\ pl_stored = <<>>
    /\ pl_todo = <<>>
    /\ pl_start_time = 0
    /\ pl_end_time = 0
    /\ pl_files = {}
    /\ pl_calls = <<>>
    /\ pl_pc = "idle"

WindowIdle ==
    /\ window = <<>>
    /\ day_captures = <<>>
    /\ locations = <<>>
    /\ obfuscate = FALSE
    /\ ordinals = <<>>
    /\ collection = <<>>
    /\ out_csv = <<>>
    /\ w_pc = "idle"

\* parse_json is not running.
ParseIdle ==
    /\ db = <<>>
    /\ split_years = FALSE
    /\ preserve_metadata = FALSE
    /\ metadata = <<>>
    /\ out_files = {}
    /\ out_rows = <<>>
    /\ wrappers = 0
    /\ p_pc = "idle"
    /\ p_err = "none"

FetchInit ==
    /\ \E s1 \in StreamsOf(AllKinds, MaxLen) : \E s2 \in RegularStreams(MaxLen) :
           stream = [t \in Traps |-> IF t = 1 THEN s1 ELSE s2]
    /\ mode \in {"start", "end"}
    /\ stdscr \in BOOLEAN
    /\ target_traps \in {{}, {1}}
    /\ pc = "start"
    /\ err = "none"
    /\ trap_data = <<>>
    /\ incomplete_traps = <<>>
    /\ req_parity = 0
    /\ last_request = <<>>
    /\ output = <<>>
    /\ WindowIdle
    /\ ParseIdle
    /\ CaptureIdle
    /\ PipelineIdle

\* The request on the full duration and the loop over its traps.
InitialFetch(present, over) ==
    /\ pc = "start"
    /\ last_request' = TimeFrame(StartTime)
    /\ LET js == request_data(StartTime, present, over)
           st == InitialTraps([data |-> <<>>, inc |-> <<>>, err |-> "none"],
                               TrapOrder(present), js)
           e  == IF st.err # "none" THEN st.err
                 ELSE IF target_traps # {} /\ target_traps \ DOMAIN st.data # {}
                      THEN "not_found" ELSE "none"
       IN  /\ trap_data' = st.data
           /\ incomplete_traps' = st.inc
           /\ err' = e
           /\ pc' = IF e = "none" THEN "loop" ELSE "error"
    /\ req_parity' = 1 - req_parity
    /\ UNCHANGED <<stream, mode, stdscr, target_traps, output>>
    /\ UNCHANGED notFetch

\* One iteration of `while incomplete_traps'.
Continue(present, over) ==
    /\ pc = "loop"
    /\ DOMAIN incomplete_traps # {}
    /\ last_request' = TimeFrame(EarliestDate(incomplete_traps))
    /\ LET new_js == request_data(EarliestDate(incomplete_traps), present, over)
           st == ContinueTraps([data |-> trap_data, inc |-> incomplete_traps, err |-> "none"],
                                TrapOrder(present), new_js)
       IN  /\ trap_data' = st.data
           /\ incomplete_traps' = st.inc
           /\ err' = st.err
           /\ pc' = IF st.err = "none" THEN "loop" ELSE "error"
    /\ req_parity' = 1 - req_parity
    /\ UNCHANGED <<stream, mode, stdscr, target_traps, output>>
    /\ UNCHANGED notFetch

\* The loop ends and the data is written to file.
Finish ==
    /\ pc = "loop"
    /\ DOMAIN incomplete_traps = {}
    /\ output' = <<trap_data>>
    /\ pc' = "done"
    /\ UNCHANGED <<stream, mode, stdscr, target_traps, err, trap_data,
                   incomplete_traps, req_parity, last_request>>
    /\ UNCHANGED notFetch

FetchNext ==
    \/ \E present \in SUBSET Traps : \E over \in SUBSET present :
           InitialFetch(present, over)
    \/ \E present \in SUBSET Traps : \E over \in SUBSET present :
           Continue(present, over)
    \/ Finish

\* The API answers every request with all its traps and keeps to its cap.
FaithfulNext ==
    \/ InitialFetch(Traps, {})
    \/ Continue(Traps, {})
    \/ Finish

\* download_data against an API that may leave traps out of a response and
\* may break its cap.
SpecFetch == FetchInit /\ [][FetchNext]_vars

\* download_data against an API that keeps to its protocol.
SpecFaithful == FetchInit /\ [][FaithfulNext]_vars

\* The same with one trap that has data, no display and no target traps.
\* download_data runs on its own thread of control: it takes its next step
\* whenever it has one.
LoopInit == FetchInit /\ stream[2] = <<>> /\ ~stdscr /\ target_traps = {}

SpecLoop == LoopInit /\ [][FaithfulNext]_vars /\ WF_vars(FaithfulNext)

(***************************************************************************)
(* Properties of download_data                                             *)
(***************************************************************************)
Last(s) == s[Len(s)]

ValidStamps(s) ==
    \A i \in 1..Len(s) : s[i].timestamp_start # EmptyStamp /\ s[i].timestamp_end # EmptyStamp

\* The valid ending timestamps of s never decrease.
NonDecreasingEnds(s) ==
    \A i, j \in 1..Len(s) :
        (i < j /\ s[i].timestamp_end # EmptyStamp /\ s[j].timestamp_end # EmptyStamp)
            => s[i].timestamp_end <= s[j].timestamp_end

\* Every capture is a window with valid timestamps that does not start before
\* the end of the capture before it.
DisjointWindows(s) ==
    /\ ValidStamps(s)
    /\ \A i \in 1..Len(s) : s[i].timestamp_start < s[i].timestamp_end
    /\ \A i \in 1..Len(s) - 1 : s[i].timestamp_end <= s[i + 1].timestamp_start

\* C1 as stated: when the loop has finished, every trap whose stream is in
\* chronological order and longer than the cap has been accumulated in full.
C1_ReconstructsOrdered ==
    pc = "done" =>
        \A t \in DOMAIN trap_data :
            (Len(stream[t]) > limit /\ ValidStamps(stream[t])
                /\ NonDecreasingEnds(stream[t])) => trap_data[t] = stream[t]

\* C1 amended: when the loop has finished, every trap whose stream is longer
\* than the cap and consists of windows that neither overlap nor repeat has
\* been accumulated in full, in the stream's order.
C1_ReconstructsDisjoint ==
    pc = "done" =>
        \A t \in DOMAIN trap_data :
            (Len(stream[t]) > limit /\ DisjointWindows(stream[t]))
                => trap_data[t] = stream[t]

\* Both traps were cut at the cap by the initial response, at different
\* ending timestamps, and both are reconstructed.
C1_Witness ==
    /\ pc = "done"
    /\ DOMAIN trap_data = Traps
    /\ \A t \in Traps : Len(stream[t]) > limit /\ DisjointWindows(stream[t])
    /\ stream[1][limit].timestamp_end # stream[2][limit].timestamp_end
    /\ trap_data = stream

\* C2 as stated: the loop is left only when no trap is incomplete, and the
\* call comes to an end (every stream of the API is finite).
C2_LoopEnds ==
    /\ [](pc = "done" => DOMAIN incomplete_traps = {})
    /\ <>(pc \in {"done", "error"})

\* C3: the valid ending timestamps of a trap's accumulated captures never
\* decrease, when those of the API's streams (hence of every response) do not.
C3_AccumulatedOrdered ==
    (\A t \in Traps : NonDecreasingEnds(stream[t]))
        => \A t \in DOMAIN trap_data : NonDecreasingEnds(trap_data[t])

\* A continuation has added captures to the first trap's accumulated captures
\* while the second trap is followed too.
C3_Witness ==
    /\ pc = "loop"
    /\ DOMAIN trap_data = Traps
    /\ Len(trap_data[1]) > limit
    /\ Len(trap_data[2]) >= limit

\* The traps download_data looks at in a response: the selected traps in the
\* initial response, the incomplete traps in a continuation response.
Tracked(t) == IF pc = "start" THEN Selected(t) ELSE t \in DOMAIN incomplete_traps

\* The step is a request answered by `present' and `over'.
Requested(present, over) == InitialFetch(present, over) \/ Continue(present, over)

\* The response the step of Requested(present, over) received.
Response(present, over) ==
    request_data(IF pc = "start" THEN StartTime ELSE EarliestDate(incomplete_traps),
                 present, over)

\* C4: a response, initial or continuation, with more than limit captures for
\* a trap download_data looks at ends the call with an error, and nothing is
\* ever written.
C4_CapFatal ==
    /\ [][\A present \in SUBSET Traps : \A over \in SUBSET present :
            (/\ Requested(present, over)
             /\ \E t \in present :
                    Tracked(t) /\ Len(Response(present, over)[t]) > limit)
                => (pc' = "error" /\ output' = <<>>)]_vars
    /\ [](pc = "error" => output = <<>>)

\* A continuation response broke the cap and ended the call.
C4_Witness == pc = "error" /\ err = "limit" /\ req_parity = 0 /\ output = <<>>

\* C5 as stated: when the last capture delivered for a trap that is cut at
\* the cap (in the initial response) or still incomplete (in a continuation
\* response) has an empty ending timestamp, the call ends with an error.
C5_LostAnchorFatal ==
    [][\A present \in SUBSET Traps : \A over \in SUBSET present :
          (/\ Requested(present, over)
           /\ \E t \in present :
                  LET captures == Response(present, over)[t]
                  IN  /\ Tracked(t)
                      /\ captures # <<>>
                      /\ pc = "start" => Len(captures) = limit
                      /\ Last(captures).timestamp_end = EmptyStamp)
              => pc' = "error"]_vars

(***************************************************************************)
(* The aggregation of one day window (bg_json_parser)                      *)
(*                                                                         *)
(* Coordinates are points of a grid whose step is GridMeters meters in     *)
(* both directions, the origin of the grid being the point of latitude 0   *)
(* and longitude 0; at that scale the haversine distance is the euclidean  *)
(* one.  The Greenwich point that a trap without GPS reports is the grid   *)
(* point (GreenwichLat, GreenwichLon).                                     *)
(*                                                                         *)
(* The unit of time is 6 minutes.  A timestamp t > 0 belongs to the date   *)
(* 1 + (t - 1) \div SlotsPerDay, and DaysPerYear consecutive dates make a  *)
(* year.                                                                   *)
(***************************************************************************)
\* num_captures >= 92 (one cumulative hour of missing data is allowed in a
\* day of 96 quarters of an hour): scaled down, keeping 2 * 92 > 96.
MinCaptures == 2

\* len(day_captures) > 96 is an error: scaled down.
MaxDay == 3

DaysPerYear == 2

SlotsPerDay == 2 * MaxDay + 2

GridMeters == 37

GreenwichLat == 2

GreenwichLon == 2

\* 111 meters: two points closer than this are at the same location.
NearMeters == 111

\* The ordinal string has 8 digits unless the ordinal is too large.
OrdinalDigits == 8

Unset == "unset"

make_date(string) ==
    IF make_datetime(string) # 0 THEN 1 + (make_datetime(string) - 1) \div SlotsPerDay
    ELSE 0

YearOf(date) == (date - 1) \div DaysPerYear

\* The distance in (whole) meters between two grid points whose squared
\* distance is a squared grid steps, for the points that are at most 8
\* steps apart in each direction.
Meters ==
    [a \in 0..128 |->
        CHOOSE r \in 0..(GridMeters * 12) :
            r * r <= a * GridMeters * GridMeters /\ a * GridMeters * GridMeters < (r + 1) * (r + 1)]

calculate_distance(lat1, lon1, lat2, lon2) ==
    LET dlon == lon2 - lon1
        dlat == lat2 - lat1
    IN  Meters[dlat * dlat + dlon * dlon]

RemoveAt(s, i) == SubSeq(s, 1, i - 1) \o SubSeq(s, i + 1, Len(s))

\* The trap could not get correct GPS data.
InvalidGPS_ZeroOnly(capture) ==
    capture.trap_latitude = 0 \/ capture.trap_longitude = 0

InvalidGPS(capture) ==
    \/ capture.trap_latitude = 0
    \/ capture.trap_longitude = 0
    \/ (capture.trap_latitude = GreenwichLat /\ capture.trap_longitude = GreenwichLon)

Distance(capture, location) ==
    calculate_distance(capture.trap_latitude, capture.trap_longitude,
                       location.true_latitude, location.true_longitude)

\* A location recorded previously, with the two keys make_collection adds.
Known(location) ==
    [true_latitude |-> location.true_latitude,
     true_longitude |-> location.true_longitude,
     offset_latitude |-> location.offset_latitude,
     offset_longitude |-> location.offset_longitude,
     captures |-> <<>>, new |-> FALSE]

\* A new location one grid step north of the capture.
NewLocation_Elsewhere(capture) ==
    [true_latitude |-> capture.trap_latitude + 1,
     true_longitude |-> capture.trap_longitude,
     offset_latitude |-> Unset,
     offset_longitude |-> Unset,
     captures |-> <<>>, new |-> TRUE]

\* A new location at the coordinates of a capture.
NewLocation(capture) ==
    [true_latitude |-> capture.trap_latitude,
     true_longitude |-> capture.trap_longitude,
     offset_latitude |-> Unset,
     offset_longitude |-> Unset,
     captures |-> <<>>, new |-> TRUE]

\* The first loop over the captures, backwards from captures[i]: drops the
\* captures without GPS data and pinpoints the new locations.
RECURSIVE Discover(_, _, _)
Discover(caps, locs, i) ==
    IF i = 0 THEN [captures |-> caps, locations |-> locs]
    ELSE IF InvalidGPS(caps[i]) THEN Discover(RemoveAt(caps, i), locs, i - 1)
    ELSE IF \E k \in 1..Len(locs) : Distance(caps[i], locs[k]) < NearMeters
         THEN Discover(caps, locs, i - 1)
         ELSE Discover(caps, Append(locs, NewLocation(caps[i])), i - 1)

\* The last location at the least distance.
Closest_Last(capture, locs) ==
    LET distance == [k \in 1..Len(locs) |-> Distance(capture, locs[k])]
    IN  CHOOSE k \in 1..Len(locs) :
            \A j \in 1..Len(locs) :
                distance[k] < distance[j] \/ (distance[k] = distance[j] /\ k >= j)

\* The closest location of a capture: the first one at the least distance.
Closest(capture, locs) ==
    LET distance == [k \in 1..Len(locs) |-> Distance(capture, locs[k])]
    IN  CHOOSE k \in 1..Len(locs) :
            \A j \in 1..Len(locs) :
                distance[k] < distance[j] \/ (distance[k] = distance[j] /\ k <= j)

\* The elements of s whose index is in I, in the order of s.
RECURSIVE Pick(_, _, _)
Pick(s, I, i) ==
    IF i > Len(s) THEN <<>>
    ELSE (IF i \in I THEN <<s[i]>> ELSE <<>>) \o Pick(s, I, i + 1)

\* The second loop: every capture goes to its closest location.
Assign(caps, locs) ==
    LET closest == [i \in 1..Len(caps) |-> Closest(caps[i], locs)]
    IN  [k \in 1..Len(locs) |->
            [locs[k] EXCEPT
                !.captures = Pick(caps, {i \in 1..Len(caps) : closest[i] = k}, 1)]]

\* round(sum(xs) / len(xs), 6), on the grid: the nearest grid coordinate.
RECURSIVE Sum(_)
Sum(xs) == IF xs = <<>> THEN 0 ELSE Head(xs) + Sum(Tail(xs))

Mean(xs) == (2 * Sum(xs) + Len(xs)) \div (2 * Len(xs))

\* The displacements obfuscate_coordinates can choose (200 to 400 meters in
\* any direction): two of them stand for all.
Displacements == {<<8, 0>>, <<0 - 6, 6>>}

obfuscate_coordinates(lat, lon, disp) == <<lat + disp[1], lon + disp[2]>>

\* Allow at most one cumulative hour of missing data in a day.
Qualifies(location) == Len(location.captures) >= MinCaptures

Discard_Never(location) == FALSE

\* A location without enough captures is removed when it is new.
Discard(location) == location.new

\* The obfuscation moves the location itself.
Promote_Displaced(location, obf, disp) ==
    IF location.new
    THEN LET lat == Mean([k \in 1..Len(location.captures) |->
                             location.captures[k].trap_latitude])
             lon == Mean([k \in 1..Len(location.captures) |->
                             location.captures[k].trap_longitude])
             off == IF obf THEN obfuscate_coordinates(lat, lon, disp) ELSE <<lat, lon>>
         IN  [location EXCEPT !.true_latitude = off[1], !.true_longitude = off[2],
                              !.offset_latitude = off[1], !.offset_longitude = off[2]]
    ELSE location

\* A new location with enough captures gets the average of the coordinates
\* of its captures, and its offset coordinates.
Promote(location, obf, disp) ==
    IF location.new
    THEN LET lat == Mean([k \in 1..Len(location.captures) |->
                             location.captures[k].trap_latitude])
             lon == Mean([k \in 1..Len(location.captures) |->
                             location.captures[k].trap_longitude])
             off == IF obf THEN obfuscate_coordinates(lat, lon, disp) ELSE <<lat, lon>>
         IN  [location EXCEPT !.true_latitude = lat, !.true_longitude = lon,
                              !.offset_latitude = off[1], !.offset_longitude = off[2]]
    ELSE location

\* The two keys are left on the location.
Strip_Keep(location) == location

\* del location['captures']; del location['new']
Strip(location) ==
    [true_latitude |-> location.true_latitude,
     true_longitude |-> location.true_longitude,
     offset_latitude |-> location.offset_latitude,
     offset_longitude |-> location.offset_longitude]

\* The last loop, backwards from locs[i]; coll is the collection so far.
RECURSIVE Finalize(_, _, _, _, _)
Finalize(locs, coll, i, obf, disp) ==
    IF i = 0 THEN [collection |-> coll, locations |-> locs]
    ELSE IF Qualifies(locs[i])
         THEN LET location == Promote(locs[i], obf, disp)
              IN  Finalize([locs EXCEPT ![i] = Strip(location)], <<location>>,
                           i - 1, obf, disp)
         ELSE IF Discard(locs[i])
              THEN Finalize(RemoveAt(locs, i), coll, i - 1, obf, disp)
              ELSE Finalize([locs EXCEPT ![i] = Strip(locs[i])], coll, i - 1, obf, disp)

\* The locations with their captures, before the last loop.
Binned(caps, locs) ==
    LET found == Discover(caps, [k \in 1..Len(locs) |-> Known(locs[k])], Len(caps))
    IN  Assign(found.captures, found.locations)

\* make_collection: the collection (<<>> for None), the list of locations
\* and the list of captures it leaves.
make_collection(caps, locs, obf, disp) ==
    LET found  == Discover(caps, [k \in 1..Len(locs) |-> Known(locs[k])], Len(caps))
        binned == Assign(found.captures, found.locations)
        final  == Finalize(binned, <<>>, Len(binned), obf, disp)
    IN  [collection |-> final.collection, locations |-> final.locations,
         captures |-> found.captures]

mos_count_First(caps) == caps[1].medium

\* Mosquito counts are stored in the 'medium' field.
mos_count(caps) == Sum([k \in 1..Len(caps) |-> caps[k].medium])

\* Only the first capture is looked at.
used_co2_First(caps) == caps[1].co2_status

used_co2(caps) == \E k \in 1..Len(caps) : caps[k].co2_status

counter_on_Always(caps) == TRUE

counter_on(caps) == \E k \in 1..Len(caps) : caps[k].counter_status

\* str(ordinal), a sequence of digits.
RECURSIVE str(_)
str(n) == IF n < 10 THEN <<n>> ELSE Append(str(n \div 10), n % 10)

\* zfill that never pads.
zfill_None(string, width) == string

zfill(string, width) ==
    IF Len(string) >= width THEN string
    ELSE [k \in 1..(width - Len(string)) |-> 0] \o string

ordinal_string(ordinal) ==
    LET min_digits == Len(str(ordinal)) + 1
        digits == IF min_digits > OrdinalDigits THEN min_digits ELSE OrdinalDigits
    IN  zfill(str(ordinal), digits)

\* The ordinal the next collection of the year gets.
Ordinal(ords, year) == (IF year \in DOMAIN ords THEN ords[year] ELSE 0) + 1

\* write_collection: whether the collection was written, the row written
\* if any, and the ordinals.
write_collection(coll, prefix, ords) ==
    LET caps == coll.captures
        date == make_date(caps[1].timestamp_start)
        year == YearOf(date)
        ordinal == Ordinal(ords, year)
    IN  IF counter_on(caps)
        THEN [written |-> TRUE,
              ordinals |-> Put(ords, year, ordinal),
              rows |-> <<[collection_ID |-> <<prefix, year, "collection",
                                              ordinal_string(ordinal)>>,
                          sample_ID |-> <<prefix, year, "sample", ordinal_string(ordinal)>>,
                          date |-> date,
                          trap_ID |-> caps[1].trap_id,
                          GPS_latitude |-> coll.offset_latitude,
                          GPS_longitude |-> coll.offset_longitude,
                          attractant |-> IF used_co2(caps) THEN "carbon dioxide" ELSE "",
                          sample_count |-> mos_count(caps)]>>]
        ELSE [written |-> FALSE, ordinals |-> ords, rows |-> <<>>]

(***************************************************************************)
(* One day window, from the buffer of process_captures to the output row   *)
(***************************************************************************)
WindowTrap == 1

WindowPrefix == "P1"

\* What a capture of the window reports: where the trap was, and whether
\* its counter and its CO2 were on.  The points (1,1), (3,1) and (5,1) are
\* 74 m apart from one to the next; the last three captures have no GPS
\* data and lie within 111 m of (1,1).
Reports ==
    {[trap_latitude |-> 1, trap_longitude |-> 1, counter_status |-> TRUE, co2_status |-> FALSE],
     [trap_latitude |-> 1, trap_longitude |-> 1, counter_status |-> FALSE, co2_status |-> TRUE],
     [trap_latitude |-> 3, trap_longitude |-> 1, counter_status |-> FALSE, co2_status |-> FALSE],
     [trap_latitude |-> 5, trap_longitude |-> 1, counter_status |-> TRUE, co2_status |-> TRUE],
     [trap_latitude |-> 0, trap_longitude |-> 1, counter_status |-> TRUE, co2_status |-> TRUE],
     [trap_latitude |-> 1, trap_longitude |-> 0, counter_status |-> TRUE, co2_status |-> TRUE],
     [trap_latitude |-> GreenwichLat, trap_longitude |-> GreenwichLon,
      counter_status |-> TRUE, co2_status |-> TRUE]}

\* The capture process_captures buffers for the k-th report of a day: the
\* k-th capture counted 2^(k-1) mosquitoes, so that a sum of counts tells
\* which captures were summed.
Buffered(report, k) ==
    [trap_id |-> WindowTrap,
     timestamp_start |-> k,
     co2_status |-> report.co2_status,
     counter_status |-> report.counter_status,
     medium |-> 2 ^ (k - 1),
     trap_latitude |-> report.trap_latitude,
     trap_longitude |-> report.trap_longitude]

\* The buffers that pass the check of len(day_captures).
Windows ==
    UNION {{[k \in 1..n |-> Buffered(reports[k], k)] : reports \in [1..n -> Reports]} :
           n \in 0..MaxDay}

Recorded(lat, lon) ==
    [true_latitude |-> lat, true_longitude |-> lon,
     offset_latitude |-> lat + 8, offset_longitude |-> lon]

\* The locations recorded previously for the trap.
Registries == {<<>>, <<Recorded(1, 1)>>, <<Recorded(1, 1), Recorded(5, 1)>>}

\* The ordinals loaded for the provider; the window is in year 0.
LoadedOrdinals == {<<>>, 0 :> 41}

\* download_data is not running.
FetchIdle ==
    /\ stream = [t \in Traps |-> <<>>]
    /\ mode = "start"
    /\ stdscr = FALSE
    /\ target_traps = {}
    /\ pc = "idle"
    /\ err = "none"
    /\ trap_data = <<>>
    /\ incomplete_traps = <<>>
    /\ req_parity = 0
    /\ last_request = <<>>
    /\ output = <<>>

WindowInit ==
    /\ window \in Windows
    /\ day_captures = window
    /\ locations \in Registries
    /\ obfuscate \in BOOLEAN
    /\ ordinals \in LoadedOrdinals
    /\ collection = <<>>
    /\ out_csv = <<>>
    /\ w_pc = "window"
    /\ FetchIdle
    /\ ParseIdle
    /\ CaptureIdle
    /\ PipelineIdle

\* The end of a day in process_captures: make a collection from the
\* captures of the day and write it to file.
EndDay(disp) ==
    /\ w_pc = "window"
    /\ LET made  == make_collection(day_captures, locations, obfuscate, disp)
           wrote == IF made.collection # <<>>
                    THEN write_collection(made.collection[1], WindowPrefix, ordinals)
                    ELSE [written |-> FALSE, ordinals |-> ordinals, rows |-> <<>>]
       IN  /\ collection' = made.collection
           /\ locations' = made.locations
           /\ day_captures' = made.captures
           /\ ordinals' = wrote.ordinals
           /\ out_csv' = out_csv \o wrote.rows
    /\ w_pc' = "closed"
    /\ UNCHANGED <<window, obfuscate>>
    /\ UNCHANGED notWindow

WindowNext == \E disp \in Displacements : EndDay(disp)

SpecWindow == WindowInit /\ [][WindowNext]_vars

(***************************************************************************)
(* Claims on the aggregation of one day window                             *)
(***************************************************************************)
\* The step that ends the day.
DayEnds == w_pc = "window" /\ w_pc' = "closed"

CounterActive(members) == \E k \in 1..Len(members) : members[k].counter_status

Counts(members) == Sum([k \in 1..Len(members) |-> members[k].medium])

\* A capture without GPS data, as the claims describe it.
Sentinel(capture) ==
    \/ capture.trap_latitude = 0
    \/ capture.trap_longitude = 0
    \/ <<capture.trap_latitude, capture.trap_longitude>> = <<GreenwichLat, GreenwichLon>>

\* C7 (counter gate): the end of a day writes a row only if the collection
\* made for the day has a capture whose counter was on; when the counter was
\* on in none of the captures of the collection, no row is written and the
\* ordinals are left as they were.
C7_CounterGate ==
    [][DayEnds =>
          /\ out_csv' # out_csv =>
                 /\ collection' # <<>>
                 /\ CounterActive(collection'[1].captures)
          /\ (collection' # <<>> /\ ~CounterActive(collection'[1].captures)) =>
                 /\ out_csv' = out_csv
                 /\ ordinals' = ordinals]_vars

\* A collection reached the threshold with the counter off all day: nothing
\* was written.
C7_Witness ==
    /\ w_pc = "closed"
    /\ collection # <<>>
    /\ Len(collection[1].captures) >= MinCaptures
    /\ ~CounterActive(collection[1].captures)
    /\ out_csv = <<>>

\* C8 (threshold reached): when a location gets at least MinCaptures of the
\* captures of the day, the counter being on in one of them at least, the
\* end of the day writes exactly one row, and the count of the row is the
\* sum of the counts of the captures of that location.
C8_ThresholdReached ==
    [][DayEnds =>
          \A k \in 1..Len(Binned(day_captures, locations)) :
              LET members == Binned(day_captures, locations)[k].captures
              IN  (Len(members) >= MinCaptures /\ CounterActive(members)) =>
                      /\ Len(out_csv') = Len(out_csv) + 1
                      /\ Last(out_csv').sample_count = Counts(members)]_vars

\* A row was written for a collection of exactly MinCaptures captures, in a
\* day that has another capture with GPS data.
C8_Witness ==
    /\ w_pc = "closed"
    /\ Len(out_csv) = 1
    /\ collection # <<>>
    /\ Len(collection[1].captures) = MinCaptures
    /\ Len(day_captures) > MinCaptures
    /\ out_csv[1].sample_count = Counts(collection[1].captures)

\* C9 (threshold missed): when no location gets MinCaptures of the captures
\* of the day, the end of the day makes no collection, writes no row, uses
\* no ordinal, and leaves in the list of locations none of the locations it
\* created.
C9_ThresholdMissed ==
    [][(DayEnds /\ \A k \in 1..Len(Binned(day_captures, locations)) :
                       Len(Binned(day_captures, locations)[k].captures) < MinCaptures) =>
          /\ collection' = <<>>
          /\ out_csv' = out_csv
          /\ ordinals' = ordinals
          /\ locations' = locations]_vars

\* The day had a capture with GPS data far from every recorded location: a
\* location was created for the day, and it is gone.
C9_Witness ==
    /\ w_pc = "closed"
    /\ collection = <<>>
    /\ out_csv = <<>>
    /\ \E i \in 1..Len(window) :
           /\ ~Sentinel(window[i])
           /\ \A k \in 1..Len(locations) : Distance(window[i], locations[k]) >= NearMeters

\* C10 (invalid GPS): a capture without GPS data creates no location, is in
\* no location's captures nor in the collection, and does not count: the
\* day ends as it does without these captures.
C10_InvalidGPSExcluded ==
    [][DayEnds =>
          LET found == Discover(day_captures, [k \in 1..Len(locations) |-> Known(locations[k])],
                                Len(day_captures))
              valid == SelectSeq(day_captures, LAMBDA c : ~Sentinel(c))
          IN  /\ \A k \in (Len(locations) + 1)..Len(found.locations) :
                     \E i \in 1..Len(valid) :
                         /\ found.locations[k].true_latitude = valid[i].trap_latitude
                         /\ found.locations[k].true_longitude = valid[i].trap_longitude
              /\ \A k \in 1..Len(Binned(day_captures, locations)) :
                     \A i \in 1..Len(Binned(day_captures, locations)[k].captures) :
                         ~Sentinel(Binned(day_captures, locations)[k].captures[i])
              /\ collection' # <<>> =>
                     \A i \in 1..Len(collection'[1].captures) :
                         ~Sentinel(collection'[1].captures[i])
              /\ \E disp \in Displacements :
                     LET made == make_collection(valid, locations, obfuscate, disp)
                     IN  collection' = made.collection /\ locations' = made.locations]_vars

\* A row was written for a collection of exactly MinCaptures captures, in a
\* day that has a capture without GPS data less than 111 meters away, which
\* reported its counter on and is not in the count.
C10_Witness ==
    /\ w_pc = "closed"
    /\ collection # <<>>
    /\ Len(collection[1].captures) = MinCaptures
    /\ Len(out_csv) = 1
    /\ \E i \in 1..Len(window) :
           /\ Sentinel(window[i])
           /\ Distance(window[i], collection[1]) < NearMeters
           /\ out_csv[1].sample_count = Counts(collection[1].captures)
           /\ out_csv[1].sample_count + window[i].medium = Counts(window)

(***************************************************************************)
(* process_captures: the captures of one trap, binned into days            *)
(***************************************************************************)
\* dt.datetime.min, before every timestamp.
DatetimeMin == 0

\* dt.timedelta(minutes=12)
MinDuration == 2

\* What process_captures keeps of a capture.
Kept(capture) ==
    [trap_id |-> capture.trap_id,
     timestamp_start |-> capture.timestamp_start,
     co2_status |-> capture.co2_status,
     counter_status |-> capture.counter_status,
     medium |-> capture.medium,
     trap_latitude |-> capture.trap_latitude,
     trap_longitude |-> capture.trap_longitude]

\* The state of process_captures before its first capture.  md is the
\* metadata of the trap: prefix, locations, ordinals, obfuscate.  opened is
\* the set of output files made so far and rows the rows written, each with
\* its file.
StartCaptures(md) ==
    [total_captures |-> 0,
     good_captures |-> 0,
     day_captures |-> <<>>,
     prev_end_timestamp |-> DatetimeMin,
     locations |-> md.locations,
     ordinals |-> md.ordinals,
     opened |-> {},
     rows |-> <<>>,
     err |-> "none"]

\* The test of the duration of a capture (line 194).
LongEnough_Always(curr_start_timestamp, curr_end_timestamp) == TRUE

LongEnough(curr_start_timestamp, curr_end_timestamp) ==
    curr_end_timestamp - curr_start_timestamp >= MinDuration

\* The test of the order of the captures (line 210).
Earlier_Never(curr_end_timestamp, prev_end_timestamp) == FALSE

Earlier(curr_end_timestamp, prev_end_timestamp) ==
    curr_end_timestamp < prev_end_timestamp

\* The test of the number of captures of a day (line 223).
TooMany_Never(captures) == FALSE

\* The test lets one capture more pass.
TooMany_OneMore(captures) == Len(captures) > MaxDay + 1

TooMany(captures) ==
    Len(captures) > MaxDay

\* The output file of a day: one per provider and year, or the only one.
OutputFile(split, prefix, year) ==
    IF split THEN <<prefix, year>> ELSE <<"interchange.pop">>

\* The end of a day (lines 218-256).
EndOfDay(st, curr_date, md, split, disp) ==
    IF TooMany(st.day_captures) THEN [st EXCEPT !.err = "cadence"]
    ELSE LET made  == make_collection(st.day_captures, st.locations, md.obfuscate, disp)
             file  == OutputFile(split, md.prefix, YearOf(curr_date))
             wrote == IF made.collection # <<>>
                      THEN write_collection(made.collection[1], md.prefix, st.ordinals)
                      ELSE [written |-> FALSE, ordinals |-> st.ordinals, rows |-> <<>>]
         IN  [st EXCEPT
                 !.locations = made.locations,
                 !.ordinals = wrote.ordinals,
                 !.opened = IF split THEN @ \cup {file} ELSE @,
                 !.rows = @ \o [k \in 1..Len(wrote.rows) |->
                                   [file |-> file, row |-> wrote.rows[k]]],
                 !.good_captures = IF wrote.written
                                   THEN @ + Len(made.collection[1].captures) ELSE @,
                 !.day_captures = <<>>]

\* The body of the loop for captures[i].
CaptureStep(st, caps, i, md, split, disp) ==
    LET capture == caps[i]
        curr_end_timestamp == make_datetime(capture.timestamp_end)
        curr_start_timestamp == make_datetime(capture.timestamp_start)
        curr_date == make_date(capture.timestamp_start)
        valid_dates == curr_end_timestamp # 0 /\ curr_start_timestamp # 0
        counted == [st EXCEPT !.total_captures =
                       IF ~valid_dates \/ curr_end_timestamp # st.prev_end_timestamp
                       THEN @ + 1 ELSE @]
        retained == /\ curr_end_timestamp > st.prev_end_timestamp
                    /\ LongEnough(curr_start_timestamp, curr_end_timestamp)
        stored == IF retained
                  THEN [counted EXCEPT !.day_captures = Append(@, Kept(capture)),
                                       !.prev_end_timestamp = curr_end_timestamp]
                  ELSE counted
    IN  IF curr_start_timestamp = 0 THEN [st EXCEPT !.err = "attribute"]
        ELSE IF ~valid_dates THEN counted
        ELSE IF ~retained /\ Earlier(curr_end_timestamp, st.prev_end_timestamp)
             THEN [counted EXCEPT !.err = "order"]
        ELSE IF i = Len(caps) \/ make_date(caps[i + 1].timestamp_start) # curr_date
             THEN EndOfDay(stored, curr_date, md, split, disp)
             ELSE stored

RECURSIVE CaptureLoop(_, _, _, _, _, _)
CaptureLoop(st, caps, i, md, split, disp) ==
    IF i > Len(caps) \/ st.err # "none" THEN st
    ELSE CaptureLoop(CaptureStep(st, caps, i, md, split, disp), caps, i + 1, md, split, disp)

process_captures(caps, md, split, disp) ==
    CaptureLoop(StartCaptures(md), caps, 1, md, split, disp)

(***************************************************************************)
(* parse_json: the traps of the input files, one after the other           *)
(***************************************************************************)
\* The number of trap wrappers in the input files.
MaxWrappers == 2

\* The traps of the database and their providers; trap 4 is not in it.
Prefixes == {"P1", "P2"}

WrapperTraps == {1, 2, 3, 4}

\* The database when parse_json starts.
StoredDb ==
    [traps |-> (1 :> "P1") @@ (2 :> "P1") @@ (3 :> "P2"),
     obfuscate |-> ("P1" :> TRUE) @@ ("P2" :> FALSE),
     locations |-> (1 :> <<Recorded(1, 1)>>) @@ (2 :> <<>>) @@ (3 :> <<>>),
     ordinals |-> ("P1" :> (0 :> 41)) @@ ("P2" :> <<>>)]

\* The trapset of the provider of a trap of the database.
get_trap_metadata(base, trap_id) ==
    LET prefix == base.traps[trap_id]
    IN  [prefix |-> prefix,
         trapset |-> [traps |-> [t \in {x \in DOMAIN base.traps : base.traps[x] = prefix} |->
                                    base.locations[t]],
                      ordinals |-> base.ordinals[prefix],
                      obfuscate |-> base.obfuscate[prefix]]]

\* The ordinals of one provider, upserted year by year.
Upsert(stored, ords) ==
    [y \in DOMAIN stored \cup DOMAIN ords |-> IF y \in DOMAIN ords THEN ords[y] ELSE stored[y]]

\* INSERT INTO locations ... ON CONFLICT DO NOTHING
RECURSIVE Insert(_, _)
Insert(stored, locs) ==
    IF locs = <<>> THEN stored
    ELSE Insert(IF \E k \in 1..Len(stored) : stored[k] = Head(locs)
                THEN stored ELSE Append(stored, Head(locs)),
                Tail(locs))

\* The ordinals and the locations of md written to the store.
Written(base, md) ==
    [base EXCEPT
        !.ordinals = [prefix \in DOMAIN @ |->
                         IF prefix \in DOMAIN md
                         THEN Upsert(@[prefix], md[prefix].ordinals)
                         ELSE @[prefix]],
        !.locations = [t \in DOMAIN @ |->
                          IF /\ t \in DOMAIN base.traps
                             /\ base.traps[t] \in DOMAIN md
                             /\ t \in DOMAIN md[base.traps[t]].traps
                          THEN Insert(@[t], md[base.traps[t]].traps[t])
                          ELSE @[t]]]

\* update_metadata without the transaction: what was written before the
\* error stays written.
update_metadata_Autocommit(base, md) ==
    IF \E prefix \in DOMAIN md : \E t \in DOMAIN md[prefix].traps :
           t \notin DOMAIN base.traps \/ base.traps[t] # prefix
    THEN [err |-> "update", db |-> Written(base, md)]
    ELSE [err |-> "none", db |-> Written(base, md)]

\* update_metadata runs in one transaction: it fails and changes nothing if
\* a trap is gone or has another prefix.
update_metadata(base, md) ==
    IF \E prefix \in DOMAIN md : \E t \in DOMAIN md[prefix].traps :
           t \notin DOMAIN base.traps \/ base.traps[t] # prefix
    THEN [err |-> "update", db |-> base]
    ELSE [err |-> "none", db |-> Written(base, md)]

Loaded(md, trap_id) == \E prefix \in DOMAIN md : trap_id \in DOMAIN md[prefix].traps

StoreOrdinals_Keep(old, new) == old

\* The ordinals of the trapset are the dict that write_collection changed.
StoreOrdinals(old, new) == new

\* The test of preserve_metadata before the save (line 142).
Preserves_Never(preserve) == FALSE

Preserves(preserve) == preserve

\* The finally block, when the call ends with the error e ("none" if the
\* loop ended): what the caller gets and the database.  A return in a
\* finally block discards the error on its way.
Finally(base, md, files, split, preserve, e) ==
    IF ~split \/ files # {}
    THEN IF Preserves(preserve) THEN [pc |-> "returned", err |-> e, db |-> base]
         ELSE LET saved == update_metadata(base, md)
              IN  IF saved.err # "none"
                  THEN [pc |-> "raised", err |-> saved.err, db |-> saved.db]
                  ELSE [pc |-> "returned", err |-> e, db |-> saved.db]
    ELSE [pc |-> IF e = "none" THEN "returned" ELSE "raised", err |-> e, db |-> base]

\* The j-th capture of a trap on a date: 12 minutes long, at the point
\* (1,1), counting j mosquitoes.
DayCapture(trap_id, date, j, counter) ==
    [trap_id |-> trap_id,
     timestamp_start |-> (date - 1) * SlotsPerDay + 2 * j - 1,
     timestamp_end |-> (date - 1) * SlotsPerDay + 2 * j + 1,
     co2_status |-> FALSE,
     counter_status |-> counter,
     medium |-> j,
     trap_latitude |-> 1,
     trap_longitude |-> 1]

\* n captures of a trap on a date.
Day(trap_id, date, n, counter) == [j \in 1..n |-> DayCapture(trap_id, date, j, counter)]

\* The captures a wrapper can hold for a trap: none; a full day; two full
\* days of the first year and one of the next; a full day with the counter
\* off; a day of too few captures; a full day followed by an earlier one;
\* a day of too many captures.
WrapperCaptures(t) ==
    {<<>>,
     Day(t, 1, MinCaptures, TRUE),
     Day(t, 1, MinCaptures, TRUE) \o Day(t, 2, MinCaptures, TRUE)
         \o Day(t, DaysPerYear + 1, MinCaptures, TRUE),
     Day(t, 1, MinCaptures, FALSE),
     Day(t, 1, MinCaptures - 1, TRUE),
     Day(t, 2, MinCaptures, TRUE) \o Day(t, 1, MinCaptures, TRUE),
     Day(t, 1, MaxDay + 1, TRUE)}

ParseInit ==
    /\ db = StoredDb
    /\ split_years \in BOOLEAN
    /\ preserve_metadata \in BOOLEAN
    /\ metadata = <<>>
    /\ out_files = {}
    /\ out_rows = <<>>
    /\ wrappers = 0
    /\ p_pc = "run"
    /\ p_err = "none"
    /\ FetchIdle
    /\ WindowIdle
    /\ CaptureIdle
    /\ PipelineIdle

\* The call ends with the error e.
Ends(md, files, e) ==
    LET end == Finally(db, md, files, split_years, preserve_metadata, e)
    IN  /\ p_pc' = end.pc
        /\ p_err' = end.err
        /\ db' = end.db

\* One trap wrapper of a file (lines 81-122), and the finally block if the
\* wrapper raises an error.
ParseTrap(trap_id, caps, disp) ==
    /\ p_pc = "run"
    /\ wrappers < MaxWrappers
    /\ wrappers' = wrappers + 1
    /\ UNCHANGED <<split_years, preserve_metadata>>
    /\ UNCHANGED notParse
    /\ IF caps = <<>>
       THEN UNCHANGED <<db, metadata, out_files, out_rows, p_pc, p_err>>
       ELSE IF ~Loaded(metadata, trap_id) /\ trap_id \notin DOMAIN db.traps
       THEN /\ Ends(metadata, out_files, "no_entry")
            /\ UNCHANGED <<metadata, out_files, out_rows>>
       ELSE LET new_metadata == get_trap_metadata(db, trap_id)
                curr_prefix == IF Loaded(metadata, trap_id)
                               THEN CHOOSE prefix \in DOMAIN metadata :
                                        trap_id \in DOMAIN metadata[prefix].traps
                               ELSE new_metadata.prefix
                loaded == IF Loaded(metadata, trap_id) THEN metadata
                          ELSE Put(metadata, curr_prefix, new_metadata.trapset)
                curr_trapset == loaded[curr_prefix]
                trap_metadata == [prefix |-> curr_prefix,
                                  locations |-> curr_trapset.traps[trap_id],
                                  ordinals |-> curr_trapset.ordinals,
                                  obfuscate |-> curr_trapset.obfuscate]
                st == process_captures(caps, trap_metadata, split_years, disp)
                master == [loaded EXCEPT
                              ![curr_prefix].traps[trap_id] = st.locations,
                              ![curr_prefix].ordinals = StoreOrdinals(@, st.ordinals)]
            IN  /\ metadata' = master
                /\ out_files' = out_files \cup st.opened
                /\ out_rows' = out_rows \o st.rows
                /\ IF st.err = "none"
                   THEN UNCHANGED <<db, p_pc, p_err>>
                   ELSE Ends(master, out_files \cup st.opened, st.err)

\* The files are exhausted: the finally block.
ParseEnd ==
    /\ p_pc = "run"
    /\ Ends(metadata, out_files, "none")
    /\ UNCHANGED <<split_years, preserve_metadata, metadata, out_files, out_rows, wrappers>>
    /\ UNCHANGED notParse

\* The trap whose entry of the store is changed during a call.
ChangedTrap == 2

TrapRemoved(base, t) == [base EXCEPT !.traps = [x \in (DOMAIN @) \ {t} |-> @[x]]]

TrapMoved(base, t, prefix) == [base EXCEPT !.traps[t] = prefix]

\* The administrator of the store removes a trap, or gives it to another
\* provider, while parse_json runs.
StoreChange ==
    /\ p_pc = "run"
    /\ db.traps = StoredDb.traps
    /\ \/ db' = TrapRemoved(db, ChangedTrap)
       \/ db' = TrapMoved(db, ChangedTrap, "P2")
    /\ UNCHANGED <<split_years, preserve_metadata, metadata, out_files, out_rows,
                   wrappers, p_pc, p_err>>
    /\ UNCHANGED notParse

ParseNext ==
    \/ \E t \in WrapperTraps : \E caps \in WrapperCaptures(t) : \E disp \in Displacements :
           ParseTrap(t, caps, disp)
    \/ ParseEnd

SpecParse == ParseInit /\ [][ParseNext]_vars

\* parse_json while the store changes.
StaleNext ==
    \/ ParseNext
    \/ StoreChange

SpecStale == ParseInit /\ [][StaleNext]_vars

(***************************************************************************)
(* Claims on parse_json                                                    *)
(***************************************************************************)
\* int(string), for a string of digits.
RECURSIVE int(_)
int(string) ==
    IF string = <<>> THEN 0
    ELSE 10 * int(SubSeq(string, 1, Len(string) - 1)) + string[Len(string)]

Years == {YearOf(date) : date \in 1..(DaysPerYear + 1)}

\* The rows written for a provider and a year, in the order of writing.
RowsOf(prefix, year) ==
    SelectSeq(out_rows, LAMBDA w : w.row.collection_ID[1] = prefix
                                   /\ w.row.collection_ID[2] = year)

\* The ordinal of a provider and a year when parse_json starts, in the
\* trapset loaded, and in the database.
StoredOrdinal(prefix, year) ==
    IF year \in DOMAIN StoredDb.ordinals[prefix] THEN StoredDb.ordinals[prefix][year] ELSE 0

LoadedOrdinal(prefix, year) ==
    IF prefix \in DOMAIN metadata /\ year \in DOMAIN metadata[prefix].ordinals
    THEN metadata[prefix].ordinals[year]
    ELSE StoredOrdinal(prefix, year)

\* C6 (ordinal sequence): at every moment of a call of parse_json, for
\* every provider and year, the i-th row written for them has the ordinal
\* stored at the start (0 if none) plus i, in its collection id and in its
\* sample id; the ordinal kept for them is the stored one plus the number
\* of rows written; and no two rows have the same collection id.
C6_OrdinalSequence ==
    /\ \A prefix \in Prefixes : \A year \in Years :
           LET rows == RowsOf(prefix, year)
           IN  /\ \A i \in 1..Len(rows) :
                      /\ int(rows[i].row.collection_ID[4]) = StoredOrdinal(prefix, year) + i
                      /\ rows[i].row.sample_ID[4] = rows[i].row.collection_ID[4]
               /\ LoadedOrdinal(prefix, year) = StoredOrdinal(prefix, year) + Len(rows)
    /\ \A i, j \in 1..Len(out_rows) :
           i # j => out_rows[i].row.collection_ID # out_rows[j].row.collection_ID

\* Two traps of the provider P1 were aggregated one after the other: three
\* rows for the first year, the first and the last from different traps,
\* and one row for the next year.
C6_Witness ==
    /\ p_pc = "returned"
    /\ Len(RowsOf("P1", 0)) = 3
    /\ RowsOf("P1", 0)[1].row.trap_ID # RowsOf("P1", 0)[3].row.trap_ID
    /\ Len(RowsOf("P1", 1)) = 1

(***************************************************************************)
(* process_captures, capture by capture, on the captures of one trap       *)
(***************************************************************************)
\* The longest list of captures: enough for one day of too many captures.
MaxCaptures == MaxDay + 1

TrapCapture(start, end) ==
    [trap_id |-> WindowTrap,
     timestamp_start |-> start,
     timestamp_end |-> end,
     co2_status |-> FALSE,
     counter_status |-> TRUE,
     medium |-> 1,
     trap_latitude |-> 1,
     trap_longitude |-> 1]

\* The latest valid ending timestamp of the list s, 1 if there is none.
RECURSIVE LatestEnd(_)
LatestEnd(s) ==
    IF s = <<>> THEN 1
    ELSE LET m == LatestEnd(SubSeq(s, 1, Len(s) - 1))
         IN  IF s[Len(s)].timestamp_end > m THEN s[Len(s)].timestamp_end ELSE m

\* The captures that may follow the list s, m being its latest ending
\* timestamp: a capture of 12 minutes starting at m; one of 6 minutes; the
\* last capture again; a capture of 12 minutes that ends before m; a capture
\* without ending timestamp; one without starting timestamp; the first
\* capture of the next date.
Following(s) ==
    LET m == LatestEnd(s)
        tomorrow == make_date(m) * SlotsPerDay + 1
    IN  {TrapCapture(m, m + 2), TrapCapture(m, m + 1),
         TrapCapture(m, EmptyStamp), TrapCapture(EmptyStamp, m + 2),
         TrapCapture(tomorrow, tomorrow + 2)}
        \cup (IF s # <<>> THEN {s[Len(s)]} ELSE {})
        \cup (IF m >= 4 THEN {TrapCapture(m - 3, m - 1)} ELSE {})

RECURSIVE CaptureLists(_)
CaptureLists(n) ==
    IF n = 0 THEN {<<>>}
    ELSE LET shorter == CaptureLists(n - 1)
         IN  shorter \cup
             UNION {{Append(s, c) : c \in Following(s)} :
                        s \in {x \in shorter : Len(x) = n - 1}}

\* The metadata of the trap: a trap of the provider P1 without recorded
\* location, in a year without ordinal.
TrapMetadata ==
    [prefix |-> WindowPrefix, locations |-> <<>>, ordinals |-> <<>>, obfuscate |-> FALSE]

CaptureInit ==
    /\ trap_captures \in CaptureLists(MaxCaptures)
    /\ index = 1
    /\ run = StartCaptures(TrapMetadata)
    /\ c_pc = "run"
    /\ FetchIdle
    /\ WindowIdle
    /\ ParseIdle
    /\ PipelineIdle

\* One turn of the loop of process_captures.
NextCapture(disp) ==
    /\ c_pc = "run"
    /\ index <= Len(trap_captures)
    /\ run' = CaptureStep(run, trap_captures, index, TrapMetadata, FALSE, disp)
    /\ index' = index + 1
    /\ c_pc' = IF run'.err # "none" THEN "raised" ELSE "run"
    /\ UNCHANGED trap_captures
    /\ UNCHANGED notCapture

\* return total_captures, good_captures
ReturnCaptures ==
    /\ c_pc = "run"
    /\ index > Len(trap_captures)
    /\ c_pc' = "returned"
    /\ UNCHANGED <<trap_captures, index, run>>
    /\ UNCHANGED notCapture

CapturesNext ==
    \/ \E disp \in Displacements : NextCapture(disp)
    \/ ReturnCaptures

SpecCaptures == CaptureInit /\ [][CapturesNext]_vars

(***************************************************************************)
(* Claims about process_captures                                           *)
(***************************************************************************)
\* The captures have both timestamps and their ending timestamps never
\* decrease: the stream is ordered.
Ordered(s) ==
    /\ \A k \in 1..Len(s) : s[k].timestamp_start # EmptyStamp /\ s[k].timestamp_end # EmptyStamp
    /\ \A k \in 1..(Len(s) - 1) : s[k].timestamp_end <= s[k + 1].timestamp_end

DistinctEnds(s) == {s[k].timestamp_end : k \in 1..Len(s)}

\* C11: on an ordered stream, the total_captures that process_captures
\* returns is the number of distinct ending timestamps of the stream,
\* however often an ending timestamp is repeated and whatever the durations.
C11_TotalCountsDistinctEnds ==
    (c_pc = "returned" /\ Ordered(trap_captures))
        => run.total_captures = Cardinality(DistinctEnds(trap_captures))

\* The capture that the loop handles next has both timestamps and ends
\* before prev_end_timestamp, the end of the last capture that was kept.
OutOfOrder ==
    /\ c_pc = "run"
    /\ index <= Len(trap_captures)
    /\ trap_captures[index].timestamp_start # EmptyStamp
    /\ trap_captures[index].timestamp_end # EmptyStamp
    /\ trap_captures[index].timestamp_end < run.prev_end_timestamp

\* C12: a capture with valid timestamps that ends before
\* prev_end_timestamp makes process_captures raise the error of order at
\* that capture, whatever the random choices of the run, and no later
\* capture of the trap is handled.
C12_OutOfOrderFatal ==
    [][/\ OutOfOrder => /\ c_pc' = "raised"
                        /\ run'.err = "order"
                        /\ index' = index + 1
                        /\ run'.day_captures = run.day_captures
                        /\ run'.rows = run.rows
       /\ c_pc = "raised" => UNCHANGED captureVars]_vars

C12_Witness ==
    /\ c_pc = "raised"
    /\ run.err = "order"
    /\ index >= 3
    /\ trap_captures[index - 1].timestamp_end < run.prev_end_timestamp
    /\ index <= Len(trap_captures)

\* The capture k of the list s ends before a capture delivered earlier.
EndsBeforeEarlier(s, k) ==
    /\ s[k].timestamp_end # EmptyStamp
    /\ \E j \in 1..(k - 1) : /\ s[j].timestamp_end # EmptyStamp
                             /\ s[k].timestamp_end < s[j].timestamp_end

\* C13: process_captures never goes on after a capture whose ending
\* timestamp is earlier than the ending timestamp of any capture delivered
\* before it, kept or not: such a capture is the last one handled and the
\* run has raised.
C13_ChronologyEnforced ==
    \A k \in 1..(index - 1) :
        EndsBeforeEarlier(trap_captures, k) => (c_pc = "raised" /\ k = index - 1)

(***************************************************************************)
(* Claims about the errors of parse_json                                   *)
(***************************************************************************)
\* C14: when the captures of a trap raise a fatal error (a capture out of
\* order, or a day of more than MaxDay captures), the error reaches the
\* caller of parse_json: parse_json does not return normally, in either
\* output mode and whatever was written before.
C14_FatalErrorsSurface ==
    p_err \in {"order", "cadence"} => p_pc = "raised"

(***************************************************************************)
(* Claims about the end of a day in process_captures                       *)
(***************************************************************************)
\* The capture that the loop handles next has both timestamps, does not end
\* before the last capture kept, and is the last capture of its date.
ClosesDay ==
    /\ c_pc = "run"
    /\ index <= Len(trap_captures)
    /\ trap_captures[index].timestamp_start # EmptyStamp
    /\ trap_captures[index].timestamp_end # EmptyStamp
    /\ trap_captures[index].timestamp_end >= run.prev_end_timestamp
    /\ \/ index = Len(trap_captures)
       \/ make_date(trap_captures[index + 1].timestamp_start)
              # make_date(trap_captures[index].timestamp_start)

\* The number of captures in the buffer once the next capture is handled.
BufferAfter ==
    Len(run.day_captures)
        + (IF /\ trap_captures[index].timestamp_end > run.prev_end_timestamp
              /\ trap_captures[index].timestamp_end
                     - trap_captures[index].timestamp_start >= MinDuration
           THEN 1 ELSE 0)

\* C15: when a day ends with more than MaxDay captures in its buffer,
\* process_captures raises a fatal error before any clustering: no
\* collection is written, no location is created and no ordinal is used.
C15_CadenceCap ==
    [][(ClosesDay /\ BufferAfter > MaxDay)
           => /\ c_pc' = "raised"
              /\ run'.err = "cadence"
              /\ run'.rows = run.rows
              /\ run'.locations = run.locations
              /\ run'.ordinals = run.ordinals
              /\ run'.good_captures = run.good_captures]_vars

C15_Witness ==
    /\ c_pc = "raised"
    /\ run.err = "cadence"
    /\ Len(run.day_captures) = MaxDay + 1
    /\ run.rows = <<>>

\* C16: the day is closed at every capture that is the last of the list or
\* is followed by a capture of another date, whatever the validity of its
\* timestamps; so when process_captures returns, every capture it kept has
\* been handed to a day end and the buffer is empty.
C16_BufferEmptyOnReturn ==
    c_pc = "returned" => run.day_captures = <<>>

(***************************************************************************)
(* Claims about the clusters of make_collection                            *)
(***************************************************************************)
\* The captures of the list s, delivered in the order q.
Reorder(s, q) == [k \in 1..Len(s) |-> s[q[k]]]

\* The partition make_collection makes of the captures: the sets of the
\* captures that share a location, a capture being known by its count.
Clusters(caps, locs) ==
    LET binned == Binned(caps, locs)
    IN  {{binned[k].captures[j].medium : j \in 1..Len(binned[k].captures)} :
             k \in {n \in 1..Len(binned) : binned[n].captures # <<>>}}

\* C17: for the captures of a day and the locations recorded before it, the
\* partition make_collection makes of the captures (how many clusters, and
\* which captures share one) is the same for every order of delivery.
C17_OrderIndependent ==
    [][(w_pc = "window" /\ w_pc' = "closed")
           => \A q \in Permutations(1..Len(window)) :
                  Clusters(Reorder(window, q), locations) = Clusters(window, locations)]_vars

(***************************************************************************)
(* Claims about update_metadata                                            *)
(***************************************************************************)
\* A trap of the metadata md is no longer in the store, or is there with
\* another prefix.
Stale(base, md) ==
    \E prefix \in DOMAIN md : \E t \in DOMAIN md[prefix].traps :
        t \notin DOMAIN base.traps \/ base.traps[t] # prefix

\* The step ends parse_json and its finally block calls update_metadata.
Saves ==
    /\ p_pc = "run"
    /\ p_pc' # "run"
    /\ ~preserve_metadata
    /\ ~split_years \/ out_files' # {}

\* C18: update_metadata raises an error when a trap of the metadata to
\* save no longer exists in the store or has another prefix there, and then
\* nothing of what the call wrote (ordinals, locations) is in the store.
C18_StaleSaveRollsBack ==
    [][(Saves /\ Stale(db, metadata'))
           => (p_pc' = "raised" /\ p_err' = "update" /\ db' = db)]_vars

\* The save failed in a call that had a new ordinal and a new location to
\* write.
C18_Witness ==
    /\ p_pc = "raised"
    /\ p_err = "update"
    /\ Stale(db, metadata)
    /\ \E prefix \in DOMAIN metadata :
           /\ metadata[prefix].ordinals # db.ordinals[prefix]
           /\ \E t \in DOMAIN metadata[prefix].traps :
                  metadata[prefix].traps[t] # db.locations[t]

(***************************************************************************)
(* run_pipeline                                                            *)
(***************************************************************************)
\* Times are days.  None, the first of January 2000, and the beginning of
\* yesterday.
NoTime == 0
Y2000 == 1
Yesterday == 4

\* The values of the arguments start_time and end_time, and of the column
\* last_download.
StartTimes == {NoTime, 2, Yesterday}
EndTimes == {NoTime, 3}
LastDownloads == {NoTime, 3, Yesterday}

\* The values of include and exclude (at most one is given); {} is None.
Selections ==
    {[include |-> {}, exclude |-> {}],
     [include |-> {"P1"}, exclude |-> {}],
     [include |-> {"P9"}, exclude |-> {}],
     [include |-> {}, exclude |-> {"P1"}]}

Provider(prefix, last_download) == [prefix |-> prefix, last_download |-> last_download]

\* The rows get_providers can return: the providers P1 and P2, in one order
\* or the other.
ProviderTables ==
    {<<Provider(first, a), Provider(second, b)>> :
         first \in Prefixes, second \in Prefixes, a \in LastDownloads, b \in LastDownloads}
    \ {<<Provider(first, a), Provider(first, b)>> :
         first \in Prefixes, a \in LastDownloads, b \in LastDownloads}

\* One turn of the loop, or one call it makes.
Call(op, provider) ==
    [op |-> op, prefix |-> provider.prefix,
     start_time |-> pl_start_time', end_time |-> pl_end_time]

\* The start of the timeframe when none is set (lines 136-140).
OwnStart(provider) ==
    IF provider.last_download = NoTime THEN Y2000 ELSE provider.last_download

\* The safeguard against a second run (line 145).
Safeguard(end_time, start_time, rerun) == end_time > start_time \/ rerun

PipelineInit ==
    /\ \E selection \in Selections :
           pl_args \in [include : {selection.include}, exclude : {selection.exclude},
                        start_time : StartTimes, end_time : EndTimes,
                        preserve_metadata : BOOLEAN, rerun : BOOLEAN]
    /\ pl_stored \in ProviderTables
    /\ pl_todo = <<>>
    /\ pl_start_time = NoTime
    /\ pl_end_time = NoTime
    /\ pl_files \in SUBSET Prefixes
    /\ pl_calls = <<>>
    /\ pl_pc = "start"
    /\ FetchIdle
    /\ WindowIdle
    /\ ParseIdle
    /\ CaptureIdle

\* Lines 101-130: the providers to run and the end of the timeframe.
StartPipeline ==
    /\ pl_pc = "start"
    /\ LET providers == pl_stored
           prefixes == {providers[k].prefix : k \in 1..Len(providers)}
           specified_prefixes == IF pl_args.include # {} THEN pl_args.include
                                 ELSE pl_args.exclude
           desired_prefixes == IF pl_args.include # {} THEN pl_args.include
                               ELSE prefixes \ pl_args.exclude
       IN  IF specified_prefixes # {} /\ specified_prefixes \ prefixes # {}
           THEN /\ pl_pc' = "raised"
                /\ UNCHANGED <<pl_todo, pl_start_time, pl_end_time>>
           ELSE /\ pl_todo' = IF specified_prefixes # {}
                              THEN SelectSeq(providers,
                                             LAMBDA provider : provider.prefix \in desired_prefixes)
                              ELSE providers
                /\ pl_start_time' = pl_args.start_time
                /\ pl_end_time' = IF pl_args.end_time = NoTime THEN Yesterday
                                  ELSE pl_args.end_time
                /\ pl_pc' = "loop"
    /\ UNCHANGED <<pl_args, pl_stored, pl_files, pl_calls>>
    /\ UNCHANGED notPipeline

\* One turn of the loop (lines 132-201).  The call of parse_json passes the
\* keyword check_locations, which parse_json does not have: it raises
\* TypeError, and the lines after it never run.  downloaded tells whether
\* download_data ends without error.
RunProvider(downloaded) ==
    /\ pl_pc = "loop"
    /\ pl_todo # <<>>
    /\ LET provider == Head(pl_todo)
           turn == Call("turn", provider)
       IN  /\ pl_start_time' = IF pl_start_time = NoTime THEN OwnStart(provider)
                               ELSE pl_start_time
           /\ IF Safeguard(pl_end_time, pl_start_time', pl_args.rerun)
              THEN IF provider.prefix \notin pl_files /\ ~downloaded
                   THEN /\ pl_calls' = pl_calls \o <<turn, Call("download_data", provider)>>
                        /\ pl_pc' = "raised"
                        /\ UNCHANGED <<pl_todo, pl_files>>
                   ELSE /\ pl_calls' = pl_calls \o <<turn>>
                               \o (IF provider.prefix \notin pl_files
                                   THEN <<Call("download_data", provider)>> ELSE <<>>)
                               \o <<Call("update_traps", provider), Call("parse_json", provider)>>
                        /\ pl_files' = pl_files \cup {provider.prefix}
                        /\ pl_pc' = "raised"
                        /\ UNCHANGED pl_todo
              ELSE /\ pl_calls' = pl_calls \o <<turn, Call("skip", provider)>>
                   /\ pl_todo' = Tail(pl_todo)
                   /\ UNCHANGED <<pl_files, pl_pc>>
    /\ UNCHANGED <<pl_args, pl_stored, pl_end_time>>
    /\ UNCHANGED notPipeline

\* The loop is over.
EndPipeline ==
    /\ pl_pc = "loop"
    /\ pl_todo = <<>>
    /\ pl_pc' = "returned"
    /\ UNCHANGED <<pl_args, pl_stored, pl_todo, pl_start_time, pl_end_time, pl_files,
                   pl_calls>>
    /\ UNCHANGED notPipeline

PipelineNext ==
    \/ StartPipeline
    \/ \E downloaded \in BOOLEAN : RunProvider(downloaded)
    \/ EndPipeline

SpecPipeline == PipelineInit /\ [][PipelineNext]_vars

(***************************************************************************)
(* Claims about run_pipeline                                               *)
(***************************************************************************)
\* The row of a provider in the table of providers.
Row(prefix) ==
    pl_stored[CHOOSE k \in 1..Len(pl_stored) : pl_stored[k].prefix = prefix]

\* C19: when run_pipeline is called without start time, the timeframe of
\* every provider of the run starts at the last_download of that provider
\* (at the first of January 2000 when it has none), whatever the providers
\* handled before it.
C19_OwnStartTime ==
    pl_args.start_time = NoTime
        => \A k \in 1..Len(pl_calls) :
               pl_calls[k].start_time = OwnStart(Row(pl_calls[k].prefix))

\* C20: without rerun, run_pipeline makes no download, no update of the
\* traps, no aggregation and no update of last_download for a provider
\* whose last_download is the end of the timeframe of this run.
C20_RerunSafeguard ==
    ~pl_args.rerun
        => \A k \in 1..Len(pl_calls) :
               pl_calls[k].op \in {"download_data", "update_traps", "parse_json",
                                   "update_last_download"}
                   => Row(pl_calls[k].prefix).last_download # pl_end_time

(***************************************************************************)
(* Claims about preserve_metadata                                          *)
(***************************************************************************)
\* parse_json on a store nobody else changes, and run_pipeline.
PreserveNext ==
    \/ ParseNext
    \/ PipelineNext

PreserveInit == ParseInit \/ PipelineInit

SpecPreserve == PreserveInit /\ [][PreserveNext]_vars

\* C21: with preserve_metadata set, no step of parse_json writes to the
\* store of metadata (no ordinal, no location), however the call ends, and
\* no step of run_pipeline changes the last_download of a provider.
C21_PreserveMetadata ==
    [][/\ (p_pc = "run" /\ preserve_metadata) => db' = db
       /\ (pl_pc \in {"start", "loop"} /\ pl_args.preserve_metadata)
              => pl_stored' = pl_stored]_vars

\* parse_json returned with preserve_metadata set after it wrote a
\* collection, with an ordinal in its metadata that the store does not have.
C21_Witness ==
    /\ p_pc = "returned"
    /\ preserve_metadata
    /\ out_rows # <<>>
    /\ \E prefix \in DOMAIN metadata : metadata[prefix].ordinals # db.ordinals[prefix]

(***************************************************************************)
(* More claims about download_data                                         *)
(***************************************************************************)
\* C22: when download_data is given target traps, it fails with an error
\* unless every target trap is in the initial response, and only target
\* traps are ever accumulated, marked incomplete, or written to the output.
C22_TargetTraps ==
    target_traps # {} =>
        /\ pc \in {"loop", "done"} => target_traps \subseteq DOMAIN trap_data
        /\ DOMAIN trap_data \subseteq target_traps
        /\ DOMAIN incomplete_traps \subseteq target_traps
        /\ \A k \in 1..Len(output) : DOMAIN output[k] \subseteq target_traps

\* The data of the target trap was written after a continuation, the other
\* trap having data too.
C22_Witness ==
    /\ pc = "done"
    /\ target_traps = {1}
    /\ stream[2] # <<>>
    /\ DOMAIN output[1] = {1}
    /\ Len(output[1][1]) > limit

(***************************************************************************)
(* The end of a day with large ordinals                                    *)
(***************************************************************************)
\* The ordinals loaded for the year of the window: small ones and the ones
\* around the lengths of 7, 8 and 9 digits.
StoredOrdinals ==
    {0, 8, 9, 98, 99, 9999998, 9999999, 99999998, 99999999, 999999998}

\* The days of MinCaptures captures and more at the point (1,1), the counter
\* on or off.
FullDays ==
    {w \in Windows :
         /\ Len(w) >= MinCaptures
         /\ \A k \in 1..Len(w) : w[k].trap_latitude = 1 /\ w[k].trap_longitude = 1}

OrdinalInit ==
    /\ window \in FullDays
    /\ day_captures = window
    /\ locations \in Registries
    /\ obfuscate \in BOOLEAN
    /\ \E n \in StoredOrdinals : ordinals = (0 :> n)
    /\ collection = <<>>
    /\ out_csv = <<>>
    /\ w_pc = "window"
    /\ FetchIdle
    /\ ParseIdle
    /\ CaptureIdle
    /\ PipelineIdle

SpecOrdinal == OrdinalInit /\ [][WindowNext]_vars

\* C23: the ordinal string of every row written has at least OrdinalDigits
\* characters, starts with a zero and reads back as the ordinal of the
\* collection, in the collection id and in the sample id; so two ordinals
\* of a provider and a year never give the same collection id.
C23_OrdinalFormat ==
    \A k \in 1..Len(out_csv) :
        LET digits == out_csv[k].collection_ID[4]
        IN  /\ Len(digits) >= OrdinalDigits
            /\ digits[1] = 0
            /\ int(digits) = ordinals[YearOf(out_csv[k].date)]
            /\ int(digits) > 0
            /\ out_csv[k].sample_ID[4] = digits

\* A row was written with an ordinal of OrdinalDigits digits: its string
\* has one character more.
C23_Witness ==
    /\ w_pc = "closed"
    /\ Len(out_csv) = 1
    /\ Len(out_csv[1].collection_ID[4]) = OrdinalDigits + 1
    /\ out_csv[1].collection_ID[4][2] # 0

\* C24: after download_data has handled a response, initial or
\* continuation, every trap it tracks that is in the response is in
\* incomplete_traps exactly when the response held limit captures for it;
\* after the initial response its key there is the ending timestamp of the
\* last capture delivered.
C24_IncompleteIffCap ==
    [][\A present \in SUBSET Traps : \A over \in SUBSET present :
          (Requested(present, over) /\ pc' = "loop")
              => \A t \in present :
                     Tracked(t) =>
                         LET captures == Response(present, over)[t]
                         IN  /\ t \in DOMAIN incomplete_traps' <=> Len(captures) = limit
                             /\ (pc = "start" /\ Len(captures) = limit)
                                    => incomplete_traps'[t] = Last(captures).timestamp_end]_vars

\* After a continuation response, the second trap is through with more
\* captures than the cap and the first trap is still incomplete.
C24_Witness ==
    /\ pc = "loop"
    /\ req_parity = 0
    /\ DOMAIN incomplete_traps = {1}
    /\ 2 \in DOMAIN trap_data
    /\ Len(trap_data[2]) > limit
    /\ Len(trap_data[1]) = 2 * limit

\* C25: every continuation request starts at the least of the last-seen
\* timestamps of the traps that are incomplete when it is sent, and ends at
\* the original end time; so it starts no later than the last-seen
\* timestamp of any incomplete trap.
C25_ContinuationRange ==
    [][(pc = "loop" /\ req_parity' # req_parity)
           => /\ \A t \in DOMAIN incomplete_traps :
                     last_request'.start_time <= incomplete_traps[t]
              /\ \E t \in DOMAIN incomplete_traps :
                     last_request'.start_time = incomplete_traps[t]
              /\ last_request'.end_time = EndTime]_vars

\* The initial response cut the two traps at different ending timestamps,
\* and the continuation request started at the earlier one.
C25_Witness ==
    /\ pc = "loop"
    /\ req_parity = 0
    /\ DOMAIN trap_data = Traps
    /\ \A t \in Traps : Len(trap_data[t]) > limit
    /\ trap_data[1][limit].timestamp_end < trap_data[2][limit].timestamp_end
    /\ last_request = TimeFrame(trap_data[1][limit].timestamp_end)

\* The index of the first capture that starts at or after `last', 0 if
\* there is none.
FirstAtOrAfter(captures, last) ==
    LET new == {i \in 1..Len(captures) :
                    /\ captures[i].timestamp_start # EmptyStamp
                    /\ captures[i].timestamp_start >= last}
    IN  IF new = {} THEN 0 ELSE CHOOSE i \in new : \A j \in new : i <= j

\* The same among the captures that have both timestamps.
FirstValidAtOrAfter(captures, last) ==
    LET new == {i \in 1..Len(captures) :
                    /\ captures[i].timestamp_start # EmptyStamp
                    /\ captures[i].timestamp_end # EmptyStamp
                    /\ captures[i].timestamp_start >= last}
    IN  IF new = {} THEN 0 ELSE CHOOSE i \in new : \A j \in new : i <= j

\* The captures of the response from the index first on, none if first = 0.
SuffixFrom(captures, first) ==
    IF first = 0 THEN <<>> ELSE SubSeq(captures, first, Len(captures))

\* The continuation step, handled without error, appended the captures
\* `new' to the trap t and to nothing else of it, and the last-seen
\* timestamp of t, if t is still incomplete, is the end of the last of them.
Stitched(t, new) ==
    /\ trap_data'[t] = trap_data[t] \o new
    /\ t \in DOMAIN incomplete_traps'
           => incomplete_traps'[t] = IF new = <<>> THEN incomplete_traps[t]
                                     ELSE Last(new).timestamp_end

\* C26 as stated: for an incomplete trap in a continuation response, the
\* captures appended are the captures of the response from the first one
\* that starts at or after the last-seen timestamp of the trap; nothing
\* is appended when there is none; the last-seen timestamp becomes the end
\* of the last capture appended.
C26_StitchFromFirstAtOrAfter ==
    [][(pc = "loop" /\ Continue(Traps, {}) /\ pc' = "loop")
           => \A t \in DOMAIN incomplete_traps :
                  LET captures == Response(Traps, {})[t]
                  IN  Stitched(t, SuffixFrom(captures,
                                   FirstAtOrAfter(captures, incomplete_traps[t])))]_vars

\* C26 amended: the same, the first capture being looked for among the
\* captures of the response that have a valid starting and a valid ending
\* timestamp.
C26_StitchFromFirstValid ==
    [][(pc = "loop" /\ Continue(Traps, {}) /\ pc' = "loop")
           => \A t \in DOMAIN incomplete_traps :
                  LET captures == Response(Traps, {})[t]
                  IN  Stitched(t, SuffixFrom(captures,
                                   FirstValidAtOrAfter(captures, incomplete_traps[t])))]_vars

\* A continuation appended a capture to the first trap and left out the
\* capture without ending timestamp that the API holds just before it.
C26_Witness ==
    /\ pc \in {"loop", "done"}
    /\ req_parity = 0
    /\ 1 \in DOMAIN trap_data
    /\ Len(trap_data[1]) > limit
    /\ ValidStamps(trap_data[1])
    /\ \E i \in 1..(Len(stream[1]) - 1) :
           /\ stream[1][i].timestamp_end = EmptyStamp
           /\ stream[1][i].timestamp_start >= trap_data[1][limit].timestamp_end
           /\ stream[1][i + 1] = Last(trap_data[1])

\* The trap t is the same before and after the step: its accumulated
\* captures, whether it is incomplete, and its last-seen timestamp.
Untouched(t) ==
    /\ t \in DOMAIN trap_data' <=> t \in DOMAIN trap_data
    /\ t \in DOMAIN trap_data => trap_data'[t] = trap_data[t]
    /\ t \in DOMAIN incomplete_traps' <=> t \in DOMAIN incomplete_traps
    /\ t \in DOMAIN incomplete_traps => incomplete_traps'[t] = incomplete_traps[t]

\* C27: a continuation response changes the accumulated captures and the
\* last-seen timestamp only of traps that are incomplete when it is handled
\* and that are in it; the traps that are complete, that are not in the
\* response, or that the initial response did not hold are left as they
\* are; and no trap becomes incomplete in a continuation.
C27_ContinuationFrame ==
    [][\A present \in SUBSET Traps : \A over \in SUBSET present :
          (pc = "loop" /\ Continue(present, over))
              => /\ \A t \in Traps :
                        (t \notin DOMAIN incomplete_traps \/ t \notin present) => Untouched(t)
                 /\ DOMAIN incomplete_traps' \subseteq DOMAIN incomplete_traps]_vars

\* After a continuation, the first trap has more captures than the cap and
\* the second trap, which was complete from the start and has captures the
\* API can repeat, has what the initial response gave it.
C27_Witness ==
    /\ pc \in {"loop", "done"}
    /\ req_parity = 0
    /\ DOMAIN trap_data = Traps
    /\ Len(trap_data[1]) > limit
    /\ trap_data[2] # <<>>
    /\ Len(trap_data[2]) < limit
    /\ trap_data[2] = stream[2]
    /\ Last(stream[2]).timestamp_start >= last_request.start_time

\* C28: every turn of the continuation loop that ends without error either
\* takes a trap out of incomplete_traps or moves the last-seen timestamp of
\* an incomplete trap forward; no turn leaves incomplete_traps as it was.
C28_LoopProgress ==
    [][(pc = "loop" /\ Continue(Traps, {}) /\ pc' = "loop")
           => \E t \in DOMAIN incomplete_traps :
                  \/ t \notin DOMAIN incomplete_traps'
                  \/ incomplete_traps'[t] > incomplete_traps[t]]_vars

(***************************************************************************)
(* Claims about the buffer of a day                                        *)
(***************************************************************************)
\* The capture that the loop handles next has valid timestamps, ends after
\* prev_end_timestamp and lasts MinDuration or more.
Retains ==
    LET capture == trap_captures[index]
    IN  /\ capture.timestamp_start # EmptyStamp
        /\ capture.timestamp_end # EmptyStamp
        /\ capture.timestamp_end > run.prev_end_timestamp
        /\ capture.timestamp_end - capture.timestamp_start >= MinDuration

\* C29: a capture is put in the buffer of the day exactly when its
\* timestamps are valid, it ends after prev_end_timestamp and it lasts
\* MinDuration or more; prev_end_timestamp changes only then, to the end of
\* the capture, so the captures kept have strictly increasing ends.
C29_RetentionRule ==
    [][(c_pc = "run" /\ index <= Len(trap_captures) /\ index' = index + 1)
           => /\ run'.prev_end_timestamp
                     = IF Retains THEN trap_captures[index].timestamp_end
                       ELSE run.prev_end_timestamp
              /\ run'.prev_end_timestamp >= run.prev_end_timestamp
              /\ run'.day_captures # <<>>
                     => run'.day_captures
                            = IF Retains
                              THEN Append(run.day_captures, Kept(trap_captures[index]))
                              ELSE run.day_captures]_vars

\* Of three captures handled, the first was kept, the second, too short,
\* was not, and the third was kept.
C29_Witness ==
    /\ c_pc = "run"
    /\ index = 4
    /\ Len(run.day_captures) = 2
    /\ run.day_captures[1].timestamp_start = trap_captures[1].timestamp_start
    /\ run.day_captures[2].timestamp_start = trap_captures[3].timestamp_start
    /\ trap_captures[2].timestamp_end > trap_captures[1].timestamp_end
    /\ trap_captures[2].timestamp_start # EmptyStamp
    /\ run.prev_end_timestamp = trap_captures[3].timestamp_end

\* The buffer that the end of the day hands to make_collection when the
\* capture handled next ends its day.
ClosedBuffer ==
    IF Retains THEN Append(run.day_captures, Kept(trap_captures[index]))
    ELSE run.day_captures

\* C30: whenever a day ends, all the captures of the buffer start on the
\* date of the capture that ends the day, and a row written for the day
\* carries that date and, in its ordinal, the year of that date.
C30_SingleDayWindows ==
    [][ClosesDay
           => LET curr_date == make_date(trap_captures[index].timestamp_start)
              IN  /\ \A k \in 1..Len(ClosedBuffer) :
                         make_date(ClosedBuffer[k].timestamp_start) = curr_date
                  /\ \A k \in (Len(run.rows) + 1)..Len(run'.rows) :
                         /\ run'.rows[k].row.date = curr_date
                         /\ run'.rows[k].row.collection_ID[2] = YearOf(curr_date)]_vars

(***************************************************************************)
(* Claims about the metadata store at the end of parse_json                *)
(***************************************************************************)
\* C31: when process_captures stops a call of parse_json with a fatal
\* error, the ordinals used and the locations made during the call are not
\* written to the store: the store is as it was when the call started.
C31_NoSaveOnAbort ==
    p_err \in {"order", "cadence", "attribute"} => db = StoredDb

(***************************************************************************)
(* Claims about the locations of a day window                              *)
(***************************************************************************)
\* The locations after the first loop of make_collection over the window.
Discovered ==
    Discover(window, [k \in 1..Len(locations) |-> Known(locations[k])], Len(window)).locations

\* The location is at the coordinates of the capture.
At(location, capture) ==
    /\ location.true_latitude = capture.trap_latitude
    /\ location.true_longitude = capture.trap_longitude

\* The locations of Discovered that the first loop, which runs backwards,
\* had made before it came to window[i].
MadeBefore(i) ==
    {k \in (Len(locations) + 1)..Len(Discovered) :
         \E j \in (i + 1)..Len(window) : ~Sentinel(window[j]) /\ At(Discovered[k], window[j])}

\* The locations the first loop had when it came to window[i].
RegistryAt(i) == (1..Len(locations)) \cup MadeBefore(i)

\* C32: in the first loop of make_collection, a capture with GPS data makes
\* a new location exactly when no location of the list, recorded or made
\* earlier in the loop, is less than NearMeters away, and the new location
\* is at the coordinates of the capture; the recorded locations stay as
\* they are, and after the loop every capture with GPS data is less than
\* NearMeters from a location.
C32_ClusterDiscovery ==
    [][DayEnds =>
          /\ \A i \in 1..Len(window) :
                 ~Sentinel(window[i]) =>
                     /\ (\E k \in (Len(locations) + 1)..Len(Discovered) :
                             k \notin MadeBefore(i) /\ At(Discovered[k], window[i]))
                            <=> (\A k \in RegistryAt(i) :
                                     Distance(window[i], Discovered[k]) >= NearMeters)
                     /\ \E k \in 1..Len(Discovered) :
                            Distance(window[i], Discovered[k]) < NearMeters
          /\ \A k \in 1..Len(locations) : Discovered[k] = Known(locations[k])
          /\ \A k \in (Len(locations) + 1)..Len(Discovered) :
                 /\ Discovered[k].new
                 /\ \E i \in 1..Len(window) : ~Sentinel(window[i]) /\ At(Discovered[k], window[i])
                 /\ \A j \in 1..(k - 1) : ~At(Discovered[k], [trap_latitude |-> Discovered[j].true_latitude,
                                                              trap_longitude |-> Discovered[j].true_longitude])]_vars

\* The day made a collection at a new location from captures of which one
\* was not at the coordinates of another but less than NearMeters from it.
C32_Witness ==
    /\ w_pc = "closed"
    /\ collection # <<>>
    /\ collection[1].new
    /\ \E i, j \in 1..Len(collection[1].captures) :
           LET a == collection[1].captures[i]
               b == collection[1].captures[j]
           IN  /\ <<a.trap_latitude, a.trap_longitude>> # <<b.trap_latitude, b.trap_longitude>>
               /\ calculate_distance(a.trap_latitude, a.trap_longitude,
                                     b.trap_latitude, b.trap_longitude) < NearMeters

(***************************************************************************)
(* A day window of captures on a line                                      *)
(***************************************************************************)
\* What a capture of the window reports: the trap was on the line of
\* longitude 1, at a latitude 37 m, 74 m, 111 m or 148 m from the others,
\* or had no GPS data; its counter was on.
LineReports ==
    {[trap_latitude |-> lat, trap_longitude |-> 1, counter_status |-> TRUE, co2_status |-> FALSE] :
         lat \in {0, 1, 2, 3, 5}}

\* The buffers at the end of a day, those of too many captures included.
LineWindows ==
    UNION {{[k \in 1..n |-> Buffered(reports[k], k)] : reports \in [1..n -> LineReports]} :
           n \in 0..MaxCaptures}

\* The locations recorded previously for the trap: those of Registries, and
\* the lists an earlier day of the trap, starting without location and
\* without obfuscation, has left.
LineRegistries ==
    Registries
        \cup {make_collection(w, <<>>, FALSE, <<0, 0>>).locations :
                  w \in {x \in LineWindows : ~TooMany(x)}}

LineInit ==
    /\ window \in LineWindows
    /\ day_captures = window
    /\ locations \in LineRegistries
    /\ obfuscate \in BOOLEAN
    /\ ordinals \in LoadedOrdinals
    /\ collection = <<>>
    /\ out_csv = <<>>
    /\ w_pc = "window"
    /\ FetchIdle
    /\ ParseIdle
    /\ CaptureIdle
    /\ PipelineIdle

\* The end of a day in process_captures, from the test of the number of
\* captures of the day (lines 223-251).
LineEndDay(disp) ==
    IF TooMany(day_captures)
    THEN /\ w_pc = "window"
         /\ w_pc' = "raised"
         /\ UNCHANGED <<window, day_captures, locations, obfuscate, ordinals,
                        collection, out_csv>>
         /\ UNCHANGED notWindow
    ELSE EndDay(disp)

LineNext == \E disp \in Displacements : LineEndDay(disp)

SpecLine == LineInit /\ [][LineNext]_vars

\* The locations that hold the capture after the second loop of
\* make_collection over the window.
Holders(capture) ==
    {k \in 1..Len(Binned(window, locations)) :
         \E j \in 1..Len(Binned(window, locations)[k].captures) :
             Binned(window, locations)[k].captures[j] = capture}

\* C33: after the two loops of make_collection, every capture with GPS data
\* is in the captures of exactly one location, once, and no location of the
\* list is closer to the capture than that one, nor as close and earlier in
\* the list; a capture without GPS data is in none.
C33_NearestReassignment ==
    [][DayEnds =>
          LET binned == Binned(window, locations)
          IN  /\ \A i \in 1..Len(window) :
                     IF Sentinel(window[i]) THEN Holders(window[i]) = {}
                     ELSE \E k \in 1..Len(binned) :
                              /\ Holders(window[i]) = {k}
                              /\ \A j \in 1..Len(binned) :
                                     \/ Distance(window[i], binned[j]) > Distance(window[i], binned[k])
                                     \/ /\ Distance(window[i], binned[j]) = Distance(window[i], binned[k])
                                        /\ k <= j
              /\ \A k \in 1..Len(binned) :
                     \A a, b \in 1..Len(binned[k].captures) :
                         binned[k].captures[a] = binned[k].captures[b] => a = b]_vars

\* The captures of the day were at the latitudes 2, 3 and 5, in this order,
\* and no location was recorded: the first loop made a location for the
\* last capture, found the second one 74 m from it, and made a location for
\* the first one, 111 m from it; the second capture went to the location
\* made last, 37 m from it, and the two made the collection.
C33_Witness ==
    /\ w_pc = "closed"
    /\ Len(window) = 3
    /\ window[1].trap_latitude = 2
    /\ window[2].trap_latitude = 3
    /\ window[3].trap_latitude = 5
    /\ collection # <<>>
    /\ collection[1].new
    /\ collection[1].captures = <<window[1], window[2]>>
    /\ Len(locations) = 1

\* The locations made for the window that got MinCaptures captures or more,
\* with their captures, in the order of the list.
Gathered ==
    SelectSeq(SubSeq(Binned(window, locations), Len(locations) + 1,
                     Len(Binned(window, locations))),
              LAMBDA location : Len(location.captures) >= MinCaptures)

\* The four keys of a recorded location.
RecordedKeys == {"true_latitude", "true_longitude", "offset_latitude", "offset_longitude"}

\* C34: when make_collection returns, the list of locations is the list
\* it was given, every location as it was, followed by the locations made
\* for the window that got MinCaptures captures or more, each at the mean of
\* the coordinates of its captures; the locations made for the window that
\* got fewer are gone, and every location has the four keys of a recorded
\* location and no other.  The list given can be the one an earlier day
\* has left: the locations that day has made are kept like the others.
C34_RegistryAfterWindow ==
    [][DayEnds =>
          /\ Len(locations') = Len(locations) + Len(Gathered)
          /\ \A k \in 1..Len(locations) : locations'[k] = locations[k]
          /\ \A k \in 1..Len(locations') : DOMAIN locations'[k] = RecordedKeys
          /\ \A k \in 1..Len(Gathered) :
                 LET made == locations'[Len(locations) + k]
                     members == Gathered[k].captures
                 IN  /\ made.true_latitude
                            = Mean([j \in 1..Len(members) |-> members[j].trap_latitude])
                     /\ made.true_longitude
                            = Mean([j \in 1..Len(members) |-> members[j].trap_longitude])
                     /\ ~obfuscate => /\ made.offset_latitude = made.true_latitude
                                      /\ made.offset_longitude = made.true_longitude]_vars

\* One location was recorded before the day, by an earlier day or in the
\* store; the day gave it one capture, 74 m away, and made a location for
\* two captures 148 m away from it: the list has the recorded location as
\* it was and the new one, and the collection is that of the new one.
C34_Witness ==
    /\ w_pc = "closed"
    /\ collection # <<>>
    /\ collection[1].new
    /\ Len(collection[1].captures) = MinCaptures
    /\ Len(locations) = 2
    /\ locations[1].true_latitude = 1
    /\ locations[2].true_latitude = 5
    /\ \E i \in 1..Len(window) : window[i].trap_latitude = 3

\* The locations that have MinCaptures captures of the window or more.
Full ==
    {k \in 1..Len(Binned(window, locations)) :
         Len(Binned(window, locations)[k].captures) >= MinCaptures}

\* C35: in every day that passes the test of the number of its captures, at
\* most one location has MinCaptures captures or more; the collection
\* make_collection returns is made of the captures of that location, and
\* there is none when no location has that many.
C35_OneCandidate ==
    [][DayEnds =>
          /\ Cardinality(Full) <= 1
          /\ Full = {} => collection' = <<>>
          /\ \A k \in Full :
                 /\ collection' # <<>>
                 /\ collection'[1].captures = Binned(window, locations)[k].captures]_vars

\* A day of MaxDay captures made a collection of MinCaptures of them; the
\* other capture has GPS data and is NearMeters or more from the location
\* of the collection.
C35_Witness ==
    /\ w_pc = "closed"
    /\ Len(window) = MaxDay
    /\ collection # <<>>
    /\ Len(collection[1].captures) = MinCaptures
    /\ \E i \in 1..Len(window) :
           /\ ~Sentinel(window[i])
           /\ \A j \in 1..Len(collection[1].captures) : collection[1].captures[j] # window[i]
           /\ Distance(window[i], collection[1]) >= NearMeters

(***************************************************************************)
(* Claims about the obfuscation                                            *)
(***************************************************************************)
\* The true coordinates of the locations of a list.
TrueCoordinates(locs) ==
    [k \in 1..Len(locs) |-> <<locs[k].true_latitude, locs[k].true_longitude>>]

\* The list of locations a run without obfuscation has in place of locs:
\* the same true coordinates, and the offset coordinates equal to them.
Unobfuscated(locs) ==
    [k \in 1..Len(locs) |->
        [locs[k] EXCEPT !.offset_latitude = locs[k].true_latitude,
                        !.offset_longitude = locs[k].true_longitude]]

\* A row without its coordinates.
WithoutOffsets(row) == [row EXCEPT !.GPS_latitude = Unset, !.GPS_longitude = Unset]

\* The captures of each location of a list.
Members(binned) == [k \in 1..Len(binned) |-> binned[k].captures]

\* C36: the end of a day with obfuscation and with a displacement, and the
\* end of the same day with or without obfuscation, with any displacement,
\* from a list of locations of the same true coordinates and from the same
\* ordinals, give the same captures to the same locations, leave locations
\* of the same true coordinates, make the same collection, use the same
\* ordinals and write the same rows but for the coordinates of the rows;
\* a row written has the offset coordinates of the location of the
\* collection, and the list keeps that location with its true coordinates.
C36_ObfuscationNeutral ==
    [][DayEnds =>
          /\ \A obf \in BOOLEAN : \A disp \in Displacements :
             \A locs \in {locations, Unobfuscated(locations)} :
                 LET made  == make_collection(window, locs, obf, disp)
                     wrote == IF made.collection # <<>>
                              THEN write_collection(made.collection[1], WindowPrefix, ordinals)
                              ELSE [written |-> FALSE, ordinals |-> ordinals, rows |-> <<>>]
                     rows  == SubSeq(out_csv', Len(out_csv) + 1, Len(out_csv'))
                 IN  /\ Members(Binned(window, locs)) = Members(Binned(window, locations))
                     /\ TrueCoordinates(made.locations) = TrueCoordinates(locations')
                     /\ (made.collection = <<>>) = (collection' = <<>>)
                     /\ collection' # <<>> =>
                            /\ made.collection[1].captures = collection'[1].captures
                            /\ TrueCoordinates(made.collection) = TrueCoordinates(collection')
                     /\ wrote.ordinals = ordinals'
                     /\ [k \in 1..Len(wrote.rows) |-> WithoutOffsets(wrote.rows[k])]
                            = [k \in 1..Len(rows) |-> WithoutOffsets(rows[k])]
          /\ \A k \in (Len(out_csv) + 1)..Len(out_csv') :
                 /\ collection' # <<>>
                 /\ out_csv'[k].GPS_latitude = collection'[1].offset_latitude
                 /\ out_csv'[k].GPS_longitude = collection'[1].offset_longitude
                 /\ \E j \in 1..Len(locations') :
                        /\ locations'[j].true_latitude = collection'[1].true_latitude
                        /\ locations'[j].true_longitude = collection'[1].true_longitude
                        /\ locations'[j].offset_latitude = collection'[1].offset_latitude
                        /\ locations'[j].offset_longitude = collection'[1].offset_longitude]_vars

\* A day with obfuscation made a location, 148 m or more from a recorded
\* location, and wrote a row: the row has coordinates that are not those of
\* the location, which the list has.
C36_Witness ==
    /\ w_pc = "closed"
    /\ obfuscate
    /\ collection # <<>>
    /\ collection[1].new
    /\ Len(out_csv) = 1
    /\ <<out_csv[1].GPS_latitude, out_csv[1].GPS_longitude>>
           # <<collection[1].true_latitude, collection[1].true_longitude>>
    /\ Len(locations) = 2
    /\ TrueCoordinates(locations)[2] = TrueCoordinates(collection)[1]
    /\ locations[2].offset_latitude = out_csv[1].GPS_latitude
    /\ locations[2].offset_longitude = out_csv[1].GPS_longitude

(***************************************************************************)
(* Claims about the attractant                                             *)
(***************************************************************************)
\* C37: a row written at the end of a day has the attractant 'carbon
\* dioxide' exactly when the CO2 was on in one capture at least of the
\* collection, and no attractant otherwise.
C37_AttractantFlag ==
    [][DayEnds =>
          \A k \in (Len(out_csv) + 1)..Len(out_csv') :
              /\ collection' # <<>>
              /\ out_csv'[k].attractant
                     = IF \E j \in 1..Len(collection'[1].captures) :
                              collection'[1].captures[j].co2_status
                       THEN "carbon dioxide" ELSE ""]_vars

\* A row with the attractant was written for a collection whose first
\* capture had the CO2 off.
C37_Witness ==
    /\ w_pc = "closed"
    /\ Len(out_csv) = 1
    /\ out_csv[1].attractant = "carbon dioxide"
    /\ collection # <<>>
    /\ ~collection[1].captures[1].co2_status
    /\ \E j \in 1..Len(collection[1].captures) : collection[1].captures[j].co2_status

====
